---- MODULE Spec2Model ----
(***************************************************************************)
(* Model of the result optimizer of mcp-docs                               *)
(* (packages/mcp-docs/src/search-optimizer.ts, specification Spec) and of  *)
(* its chunking service (packages/mcp-docs/src/chunking/index.ts,          *)
(* specification ChunkSpec).                                               *)
(*                                                                         *)
(* JavaScript numbers are modelled as exact rationals (no rounding), texts *)
(* as run-length encoded sequences of pieces, and the tokenizer as a       *)
(* function pair on those texts in which a run of whitespace is one token  *)
(* and every other piece is one token.                                     *)
(***************************************************************************)
EXTENDS Integers, Sequences, FiniteSets, TLC

(***************************************************************************)
(* Bounds of the model.                                                    *)
(***************************************************************************)
MaxHits == 3
MaxRankHits == 4
MaxScenarioHits == 6
MaxContextHits == 2
MaxOrderHits == 3
MaxTopHits == 4
MaxOptimizerCalls == 3
MaxIndexDocuments == 2
MaxTraditionalPieces == 5
MaxSentencePieces == 5
MaxSemanticPieces == 6
MaxLatePieces == 5
MaxCalls == 3
MaxChunks == 3
MaxSections == 3
SectionTokens == 300

(***************************************************************************)
(* Numbers.  A number is [num, den] in lowest terms with den > 0; den = 0  *)
(* stands for the results of a division by zero (num = 0: NaN, num = 1:    *)
(* Infinity, num = -1: -Infinity).                                         *)
(***************************************************************************)
Abs(x) == IF x < 0 THEN -x ELSE x

RECURSIVE GCD(_, _)
GCD(a, b) == IF b = 0 THEN a ELSE GCD(b, a % b)

Rat(n, d) ==
  LET g == GCD(Abs(n), d)
  IN  [num |-> n \div g, den |-> d \div g]

Int2Rat(n) == [num |-> n, den |-> 1]

RatAdd(a, b) == Rat(a.num * b.den + b.num * a.den, a.den * b.den)

RatSub(a, b) == Rat(a.num * b.den - b.num * a.den, a.den * b.den)

RatMul(a, b) == Rat(a.num * b.num, a.den * b.den)

Sign(x) == IF x > 0 THEN 1 ELSE IF x < 0 THEN -1 ELSE 0

RatDiv(a, b) ==
  IF b.num = 0
  THEN [num |-> Sign(a.num), den |-> 0]
  ELSE IF b.num > 0
       THEN Rat(a.num * b.den, a.den * b.num)
       ELSE Rat(-(a.num * b.den), a.den * (-b.num))

RatLeq(a, b) == a.num * b.den <= b.num * a.den

RatGt(a, b) == a.num * b.den > b.num * a.den

RatGeq(a, b) == a.num * b.den >= b.num * a.den

\* ToIntegerOrInfinity of a finite number: rounds toward zero.
RatTrunc(a) ==
  IF a.num >= 0 THEN a.num \div a.den ELSE -((-a.num) \div a.den)

(***************************************************************************)
(* Texts.  A text is a sequence of runs [w, n]: n >= 1 consecutive copies  *)
(* of the piece w; adjacent runs have different pieces.  The piece " " is  *)
(* one whitespace character.                                               *)
(***************************************************************************)
Run(w, n) == [w |-> w, n |-> n]

IsSpace(w) == w \in {" ", "\n", "\t", "\r"}

\* String concatenation (+).
Concat(s, t) ==
  IF s = <<>> THEN t
  ELSE IF t = <<>> THEN s
  ELSE IF s[Len(s)].w = t[1].w
       THEN SubSeq(s, 1, Len(s) - 1)
              \o <<Run(t[1].w, s[Len(s)].n + t[1].n)>>
              \o Tail(t)
       ELSE s \o t

RECURSIVE TrimStart(_)
TrimStart(s) ==
  IF s # <<>> /\ IsSpace(s[1].w) THEN TrimStart(Tail(s)) ELSE s

RECURSIVE TrimEnd(_)
TrimEnd(s) ==
  IF s # <<>> /\ IsSpace(s[Len(s)].w)
  THEN TrimEnd(SubSeq(s, 1, Len(s) - 1))
  ELSE s

\* String.prototype.trim
Trim(s) == TrimEnd(TrimStart(s))

(***************************************************************************)
(* Tokenizer.  A token is [w, len]: the piece and the number of characters *)
(* of whitespace it covers (1 for a non-space piece); a token sequence     *)
(* is a sequence of runs [w, len, n] of n equal tokens.                    *)
(***************************************************************************)
Encode(text) ==
  [i \in 1..Len(text) |->
     IF IsSpace(text[i].w)
     THEN [w |-> text[i].w, len |-> text[i].n, n |-> 1]
     ELSE [w |-> text[i].w, len |-> 1, n |-> text[i].n]]

RECURSIVE Decode(_)
Decode(tokens) ==
  IF tokens = <<>> THEN <<>>
  ELSE Concat(<<Run(tokens[1].w, tokens[1].len * tokens[1].n)>>,
              Decode(Tail(tokens)))

RECURSIVE TokenLen(_)
TokenLen(tokens) ==
  IF tokens = <<>> THEN 0 ELSE tokens[1].n + TokenLen(Tail(tokens))

\* tokenizer.encode(text).length
TokenCount(text) == TokenLen(Encode(text))

RECURSIVE TakeTokens(_, _)
TakeTokens(tokens, k) ==
  IF k <= 0 \/ tokens = <<>> THEN <<>>
  ELSE IF tokens[1].n <= k
       THEN <<tokens[1]>> \o TakeTokens(Tail(tokens), k - tokens[1].n)
       ELSE <<[tokens[1] EXCEPT !.n = k]>>

\* Array.prototype.slice(0, end): end is truncated to an integer, a negative
\* end counts from the end of the array.
SliceTokens(tokens, end) ==
  LET e == RatTrunc(end)
      k == IF e < 0 THEN TokenLen(tokens) + e ELSE e
  IN  TakeTokens(tokens, k)

(***************************************************************************)
(* Fixed strings of the optimizer.                                         *)
(***************************************************************************)
\* "\n\n--- \n\n"
ChunkSeparator == <<Run(" ", 2), Run("---", 1), Run(" ", 3)>>

\* "\n\n"
ContextSeparator == <<Run(" ", 2)>>

\* "\n\n[Content truncated due to length...]"
TruncationNotice ==
  <<Run(" ", 2), Run("[Content", 1), Run(" ", 1), Run("truncated", 1),
    Run(" ", 1), Run("due", 1), Run(" ", 1), Run("to", 1), Run(" ", 1),
    Run("length...]", 1)>>

\* Tokens set aside for the truncation notice.
TruncationBuffer == 20

\* Remaining space a truncated result needs.
MinTruncationSpace == 500

(***************************************************************************)
(* Options.  The constructor spreads the caller's partial record over the  *)
(* defaults.                                                               *)
(***************************************************************************)
DefaultOptions ==
  [tokenBudget             |-> 10000,
   fullDocumentThreshold   |-> 3,
   expandedChunkMultiplier |-> 2,
   targetUtilization       |-> Rat(9, 10)]

SearchOptimizer(partial) == partial @@ DefaultOptions

(***************************************************************************)
(* Hits (SearchResult).  An absent metadata field and a falsy one (0, "")  *)
(* take the same branch at every use, so absent is modelled by 0 and <<>>. *)
(***************************************************************************)
NoMetadata ==
  [tokenCount |-> 0, chunkIndex |-> 0, contextBefore |-> <<>>,
   contextAfter |-> <<>>]

\* result.metadata?.tokenCount || tokenizer.encode(result.content).length
HitTokens(result) ==
  IF result.metadata.tokenCount # 0
  THEN result.metadata.tokenCount
  ELSE TokenCount(result.content)

(***************************************************************************)
(* Step 1: groupByDocument.  The Map keeps the urls in first-insertion     *)
(* order.                                                                  *)
(***************************************************************************)
GroupIndex(groups, url) ==
  LET idx == {i \in 1..Len(groups) : groups[i].url = url}
  IN  IF idx = {} THEN 0 ELSE CHOOSE i \in idx : TRUE

NewGroup(url) ==
  [url |-> url, chunks |-> <<>>, avgScore |-> Int2Rat(0),
   relevanceScore |-> Int2Rat(0), totalTokens |-> 0]

\* AddToGroup that looks for the url in the last group only.
AddToGroup_LastGroupOnly(groups, result) ==
  LET gs == IF groups = <<>> \/ groups[Len(groups)].url # result.url
            THEN Append(groups, NewGroup(result.url))
            ELSE groups
      i  == Len(gs)
  IN  [gs EXCEPT ![i].chunks = Append(@, result),
                 ![i].totalTokens = @ + HitTokens(result)]

AddToGroup(groups, result) ==
  LET gs == IF GroupIndex(groups, result.url) = 0
            THEN Append(groups, NewGroup(result.url))
            ELSE groups
      i  == GroupIndex(gs, result.url)
  IN  [gs EXCEPT ![i].chunks = Append(@, result),
                 ![i].totalTokens = @ + HitTokens(result)]

RECURSIVE GroupLoop(_, _, _)
GroupLoop(results, i, groups) ==
  IF i > Len(results) THEN groups
  ELSE GroupLoop(results, i + 1, AddToGroup(groups, results[i]))

groupByDocument(results) == GroupLoop(results, 1, <<>>)

(***************************************************************************)
(* Step 2: calculateRelevanceScores.                                       *)
(***************************************************************************)
RECURSIVE SumScores(_)
SumScores(chunks) ==
  IF chunks = <<>> THEN Int2Rat(0)
  ELSE RatAdd(chunks[1].score, SumScores(Tail(chunks)))

\* ScoreGroup with avgScore >= 0.8.
ScoreGroup_BonusAtThreshold(group) ==
  LET avg   == RatDiv(SumScores(group.chunks), Int2Rat(Len(group.chunks)))
      rel   == RatMul(Int2Rat(Len(group.chunks)), avg)
      bonus == Len(group.chunks) >= 3 /\ RatGeq(avg, Rat(8, 10))
  IN  [group EXCEPT !.avgScore = avg,
                    !.relevanceScore =
                       IF bonus THEN RatMul(rel, Rat(3, 2)) ELSE rel]

ScoreGroup(group) ==
  LET avg   == RatDiv(SumScores(group.chunks), Int2Rat(Len(group.chunks)))
      rel   == RatMul(Int2Rat(Len(group.chunks)), avg)
      bonus == Len(group.chunks) >= 3 /\ RatGt(avg, Rat(8, 10))
  IN  [group EXCEPT !.avgScore = avg,
                    !.relevanceScore =
                       IF bonus THEN RatMul(rel, Rat(3, 2)) ELSE rel]

calculateRelevanceScores(groups) ==
  [i \in 1..Len(groups) |-> ScoreGroup(groups[i])]

(***************************************************************************)
(* Array.prototype.sort is stable: an element is placed before the first   *)
(* already placed element it compares strictly before.                     *)
(***************************************************************************)
InsertBefore(s, before, x) ==
  IF before = {} THEN Append(s, x)
  ELSE LET p == CHOOSE i \in before : \A j \in before : i <= j
       IN  SubSeq(s, 1, p - 1) \o <<x>> \o SubSeq(s, p, Len(s))

\* The comparator a.relevanceScore - b.relevanceScore.
CompareGroups_Ascending(a, b) == RatSub(a.relevanceScore, b.relevanceScore)

\* Step 3: the comparator (a, b) => b.relevanceScore - a.relevanceScore;
\* a negative value places a before b.
CompareGroups(a, b) == RatSub(b.relevanceScore, a.relevanceScore)

RECURSIVE SortGroups(_, _, _)
SortGroups(groups, i, sorted) ==
  IF i > Len(groups) THEN sorted
  ELSE SortGroups(groups, i + 1,
         InsertBefore(sorted,
           {j \in 1..Len(sorted) : CompareGroups(groups[i], sorted[j]).num < 0},
           groups[i]))

\* sort((a, b) => b.score - a.score)
RECURSIVE SortByScore(_, _, _)
SortByScore(chunks, i, sorted) ==
  IF i > Len(chunks) THEN sorted
  ELSE SortByScore(chunks, i + 1,
         InsertBefore(sorted,
           {j \in 1..Len(sorted) : RatGt(chunks[i].score, sorted[j].score)},
           chunks[i]))

\* sort((a, b) => (a.metadata?.chunkIndex || 0) - (b.metadata?.chunkIndex || 0))
RECURSIVE SortByChunkIndex(_, _, _)
SortByChunkIndex(chunks, i, sorted) ==
  IF i > Len(chunks) THEN sorted
  ELSE SortByChunkIndex(chunks, i + 1,
         InsertBefore(sorted,
           {j \in 1..Len(sorted) :
              chunks[i].metadata.chunkIndex < sorted[j].metadata.chunkIndex},
           chunks[i]))

(***************************************************************************)
(* Step 4: determineStrategy.                                              *)
(***************************************************************************)
\* determineStrategy with avgScore >= 0.85 for a single chunk.
determineStrategy_InclusiveExpanded(group, options) ==
  LET chunkCount == Len(group.chunks)
      avgScore   == group.avgScore
  IN  IF chunkCount >= options.fullDocumentThreshold
         /\ RatGt(avgScore, Rat(75, 100))
      THEN "full_document"
      ELSE IF chunkCount >= 2 \/ (chunkCount = 1 /\ RatGeq(avgScore, Rat(85, 100)))
           THEN "expanded_chunk"
           ELSE "chunk"

determineStrategy(group, options) ==
  LET chunkCount == Len(group.chunks)
      avgScore   == group.avgScore
  IN  IF chunkCount >= options.fullDocumentThreshold
         /\ RatGt(avgScore, Rat(75, 100))
      THEN "full_document"
      ELSE IF chunkCount >= 2 \/ (chunkCount = 1 /\ RatGt(avgScore, Rat(85, 100)))
           THEN "expanded_chunk"
           ELSE "chunk"

(***************************************************************************)
(* Step 5: materialization.  combineChunksWithContext sorts the array it   *)
(* is given in place; createExpandedChunkResult sorts group.chunks in      *)
(* place.  Each create operator returns the result and the group as the    *)
(* call leaves it.                                                         *)
(***************************************************************************)
RECURSIVE JoinTrimmed(_)
JoinTrimmed(chunks) ==
  IF chunks = <<>> THEN <<>>
  ELSE IF Len(chunks) = 1 THEN Trim(chunks[1].content)
  ELSE Concat(Trim(chunks[1].content),
              Concat(ChunkSeparator, JoinTrimmed(Tail(chunks))))

\* combineChunksWithContext that joins the chunks in the order given.
combineChunksWithContext_Unsorted(chunks) ==
  [content |-> JoinTrimmed(chunks), chunks |-> chunks]

combineChunksWithContext(chunks) ==
  LET sortedChunks == SortByChunkIndex(chunks, 1, <<>>)
  IN  [content |-> JoinTrimmed(sortedChunks), chunks |-> sortedChunks]

\* chunks.reduce((best, current) => current.score > best.score ? current : best)
RECURSIVE BestChunk(_, _, _)
BestChunk(chunks, i, best) ==
  IF i > Len(chunks) THEN best
  ELSE BestChunk(chunks, i + 1,
                 IF RatGt(chunks[i].score, best.score) THEN chunks[i] ELSE best)

createFullDocumentResult(group) ==
  LET combined == combineChunksWithContext(group.chunks)
  IN  [result |->
         [url |-> group.url,
          content |-> combined.content,
          type |-> "full_document",
          relevanceScore |-> group.relevanceScore,
          tokenCount |-> TokenCount(combined.content),
          chunksFound |-> Len(group.chunks)],
       group |-> [group EXCEPT !.chunks = combined.chunks]]

\* createExpandedChunkResult reporting the sum of the hits' token counts.
createExpandedChunkResult_SummedTokens(group) ==
  LET bestChunk == BestChunk(group.chunks, 2, group.chunks[1])
      withBefore ==
        IF bestChunk.metadata.contextBefore # <<>>
        THEN Concat(bestChunk.metadata.contextBefore,
                    Concat(ContextSeparator, bestChunk.content))
        ELSE bestChunk.content
      withAfter ==
        IF bestChunk.metadata.contextAfter # <<>>
        THEN Concat(withBefore,
                    Concat(ContextSeparator, bestChunk.metadata.contextAfter))
        ELSE withBefore
      byScore == SortByScore(group.chunks, 1, <<>>)
      topChunks == SubSeq(byScore, 1, IF Len(byScore) < 3 THEN Len(byScore) ELSE 3)
      expandedContent ==
        IF Len(group.chunks) > 1
        THEN combineChunksWithContext(topChunks).content
        ELSE withAfter
  IN  [result |->
         [url |-> group.url,
          content |-> expandedContent,
          type |-> "expanded_chunk",
          relevanceScore |-> group.relevanceScore,
          tokenCount |-> group.totalTokens,
          chunksFound |-> Len(group.chunks)],
       group |-> IF Len(group.chunks) > 1
                 THEN [group EXCEPT !.chunks = byScore]
                 ELSE group]

\* createExpandedChunkResult that combines the first three hits of the group.
createExpandedChunkResult_FirstThree(group) ==
  LET bestChunk == BestChunk(group.chunks, 2, group.chunks[1])
      withBefore ==
        IF bestChunk.metadata.contextBefore # <<>>
        THEN Concat(bestChunk.metadata.contextBefore,
                    Concat(ContextSeparator, bestChunk.content))
        ELSE bestChunk.content
      withAfter ==
        IF bestChunk.metadata.contextAfter # <<>>
        THEN Concat(withBefore,
                    Concat(ContextSeparator, bestChunk.metadata.contextAfter))
        ELSE withBefore
      byScore == SortByScore(group.chunks, 1, <<>>)
      topChunks == SubSeq(group.chunks, 1,
                          IF Len(byScore) < 3 THEN Len(byScore) ELSE 3)
      expandedContent ==
        IF Len(group.chunks) > 1
        THEN combineChunksWithContext(topChunks).content
        ELSE withAfter
  IN  [result |->
         [url |-> group.url,
          content |-> expandedContent,
          type |-> "expanded_chunk",
          relevanceScore |-> group.relevanceScore,
          tokenCount |-> TokenCount(expandedContent),
          chunksFound |-> Len(group.chunks)],
       group |-> IF Len(group.chunks) > 1
                 THEN [group EXCEPT !.chunks = byScore]
                 ELSE group]

createExpandedChunkResult(group) ==
  LET bestChunk == BestChunk(group.chunks, 2, group.chunks[1])
      withBefore ==
        IF bestChunk.metadata.contextBefore # <<>>
        THEN Concat(bestChunk.metadata.contextBefore,
                    Concat(ContextSeparator, bestChunk.content))
        ELSE bestChunk.content
      withAfter ==
        IF bestChunk.metadata.contextAfter # <<>>
        THEN Concat(withBefore,
                    Concat(ContextSeparator, bestChunk.metadata.contextAfter))
        ELSE withBefore
      byScore == SortByScore(group.chunks, 1, <<>>)
      topChunks == SubSeq(byScore, 1, IF Len(byScore) < 3 THEN Len(byScore) ELSE 3)
      expandedContent ==
        IF Len(group.chunks) > 1
        THEN combineChunksWithContext(topChunks).content
        ELSE withAfter
  IN  [result |->
         [url |-> group.url,
          content |-> expandedContent,
          type |-> "expanded_chunk",
          relevanceScore |-> group.relevanceScore,
          tokenCount |-> TokenCount(expandedContent),
          chunksFound |-> Len(group.chunks)],
       group |-> IF Len(group.chunks) > 1
                 THEN [group EXCEPT !.chunks = byScore]
                 ELSE group]

createChunkResult(group) ==
  LET bestChunk == BestChunk(group.chunks, 2, group.chunks[1])
  IN  [result |->
         [url |-> group.url,
          content |-> bestChunk.content,
          type |-> "chunk",
          relevanceScore |-> group.relevanceScore,
          tokenCount |-> TokenCount(bestChunk.content),
          chunksFound |-> Len(group.chunks)],
       group |-> group]

(***************************************************************************)
(* truncateResult.                                                         *)
(***************************************************************************)
\* truncateResult without the update of tokenCount.
truncateResult_KeepsCount(result, maxTokens) ==
  LET tokens == Encode(result.content)
      truncatedTokens ==
        SliceTokens(tokens, RatSub(maxTokens, Int2Rat(TruncationBuffer)))
      truncatedContent == Concat(Decode(truncatedTokens), TruncationNotice)
  IN  [result EXCEPT !.content = truncatedContent]

\* truncateResult with tokens.slice(0, maxTokens).
truncateResult_NoBuffer(result, maxTokens) ==
  LET tokens == Encode(result.content)
      truncatedTokens == SliceTokens(tokens, maxTokens)
      truncatedContent == Concat(Decode(truncatedTokens), TruncationNotice)
  IN  [result EXCEPT !.content = truncatedContent,
                     !.tokenCount = TokenLen(truncatedTokens) + TruncationBuffer]

truncateResult(result, maxTokens) ==
  LET tokens == Encode(result.content)
      truncatedTokens ==
        SliceTokens(tokens, RatSub(maxTokens, Int2Rat(TruncationBuffer)))
      truncatedContent == Concat(Decode(truncatedTokens), TruncationNotice)
  IN  [result EXCEPT !.content = truncatedContent,
                     !.tokenCount = TokenLen(truncatedTokens) + TruncationBuffer]

(***************************************************************************)
(* Step 6: applyOptimizationStrategy.  The loop returns the results and    *)
(* the groups as the create calls left them.                               *)
(***************************************************************************)
Materialize(group, options) ==
  LET strategy == determineStrategy(group, options)
  IN  IF strategy = "full_document" THEN createFullDocumentResult(group)
      ELSE IF strategy = "expanded_chunk" THEN createExpandedChunkResult(group)
      ELSE createChunkResult(group)

\* PackStep with the break inside the truncation branch only.
PackStep_SkipsNonFitting(acc, i, options) ==
  LET maxTokens == RatMul(Int2Rat(options.tokenBudget), options.targetUtilization)
      made == Materialize(acc.groups[i], options)
      optimizedResult == made.result
      groups1 == [acc.groups EXCEPT ![i] = made.group]
      remainingTokens == RatSub(maxTokens, Int2Rat(acc.usedTokens))
      truncatedResult == truncateResult(optimizedResult, remainingTokens)
  IN  IF RatLeq(Int2Rat(acc.usedTokens + optimizedResult.tokenCount), maxTokens)
      THEN [results    |-> Append(acc.results, optimizedResult),
            usedTokens |-> acc.usedTokens + optimizedResult.tokenCount,
            groups     |-> groups1,
            stopped    |-> FALSE]
      ELSE IF RatGt(remainingTokens, Int2Rat(MinTruncationSpace))
           THEN [results    |-> Append(acc.results, truncatedResult),
                 usedTokens |-> acc.usedTokens + truncatedResult.tokenCount,
                 groups     |-> groups1,
                 stopped    |-> TRUE]
           ELSE [results    |-> acc.results,
                 usedTokens |-> acc.usedTokens,
                 groups     |-> groups1,
                 stopped    |-> FALSE]

\* PackStep with remainingTokens >= 500.
PackStep_FloorInclusive(acc, i, options) ==
  LET maxTokens == RatMul(Int2Rat(options.tokenBudget), options.targetUtilization)
      made == Materialize(acc.groups[i], options)
      optimizedResult == made.result
      groups1 == [acc.groups EXCEPT ![i] = made.group]
      remainingTokens == RatSub(maxTokens, Int2Rat(acc.usedTokens))
      truncatedResult == truncateResult(optimizedResult, remainingTokens)
  IN  IF RatLeq(Int2Rat(acc.usedTokens + optimizedResult.tokenCount), maxTokens)
      THEN [results    |-> Append(acc.results, optimizedResult),
            usedTokens |-> acc.usedTokens + optimizedResult.tokenCount,
            groups     |-> groups1,
            stopped    |-> FALSE]
      ELSE IF RatGeq(remainingTokens, Int2Rat(MinTruncationSpace))
           THEN [results    |-> Append(acc.results, truncatedResult),
                 usedTokens |-> acc.usedTokens + truncatedResult.tokenCount,
                 groups     |-> groups1,
                 stopped    |-> TRUE]
           ELSE [results    |-> acc.results,
                 usedTokens |-> acc.usedTokens,
                 groups     |-> groups1,
                 stopped    |-> TRUE]

\* One iteration of the loop over the groups; acc holds results, usedTokens,
\* the groups and whether the loop has hit its break.
PackStep(acc, i, options) ==
  LET maxTokens == RatMul(Int2Rat(options.tokenBudget), options.targetUtilization)
      made == Materialize(acc.groups[i], options)
      optimizedResult == made.result
      groups1 == [acc.groups EXCEPT ![i] = made.group]
      remainingTokens == RatSub(maxTokens, Int2Rat(acc.usedTokens))
      truncatedResult == truncateResult(optimizedResult, remainingTokens)
  IN  IF RatLeq(Int2Rat(acc.usedTokens + optimizedResult.tokenCount), maxTokens)
      THEN [results    |-> Append(acc.results, optimizedResult),
            usedTokens |-> acc.usedTokens + optimizedResult.tokenCount,
            groups     |-> groups1,
            stopped    |-> FALSE]
      ELSE IF RatGt(remainingTokens, Int2Rat(MinTruncationSpace))
           THEN [results    |-> Append(acc.results, truncatedResult),
                 usedTokens |-> acc.usedTokens + truncatedResult.tokenCount,
                 groups     |-> groups1,
                 stopped    |-> TRUE]
           ELSE [results    |-> acc.results,
                 usedTokens |-> acc.usedTokens,
                 groups     |-> groups1,
                 stopped    |-> TRUE]

RECURSIVE PackLoop(_, _, _)
PackLoop(acc, i, options) ==
  IF i > Len(acc.groups) \/ acc.stopped THEN acc
  ELSE PackLoop(PackStep(acc, i, options), i + 1, options)

applyOptimizationStrategy(groups, options) ==
  PackLoop([results |-> <<>>, usedTokens |-> 0, groups |-> groups,
            stopped |-> FALSE], 1, options)

(***************************************************************************)
(* Step 7: generateStats.                                                  *)
(***************************************************************************)
RECURSIVE SumHitTokens(_)
SumHitTokens(original) ==
  IF original = <<>> THEN 0
  ELSE HitTokens(original[1]) + SumHitTokens(Tail(original))

RECURSIVE SumTokenCount(_)
SumTokenCount(optimized) ==
  IF optimized = <<>> THEN 0
  ELSE optimized[1].tokenCount + SumTokenCount(Tail(optimized))

\* strategyCounts, in the insertion order of its keys.
CountStrategy(counts, strategy) ==
  LET idx == {i \in 1..Len(counts) : counts[i].strategy = strategy}
  IN  IF idx = {}
      THEN Append(counts, [count |-> 1, strategy |-> strategy])
      ELSE [counts EXCEPT ![CHOOSE i \in idx : TRUE].count = @ + 1]

RECURSIVE StrategyCounts(_, _, _)
StrategyCounts(optimized, i, counts) ==
  IF i > Len(optimized) THEN counts
  ELSE StrategyCounts(optimized, i + 1, CountStrategy(counts, optimized[i].type))

\* generateStats that relates the optimized tokens to maxTokens.
generateStats_PerMaxTokens(original, optimized, options) ==
  LET originalTokens  == SumHitTokens(original)
      optimizedTokens == SumTokenCount(optimized)
  IN  [originalTokens    |-> originalTokens,
       optimizedTokens   |-> optimizedTokens,
       utilization       |-> RatDiv(Int2Rat(optimizedTokens),
                                    RatMul(Int2Rat(options.tokenBudget),
                                           options.targetUtilization)),
       documentsReturned |-> Len(optimized),
       strategy          |-> StrategyCounts(optimized, 1, <<>>)]

generateStats(original, optimized, options) ==
  LET originalTokens  == SumHitTokens(original)
      optimizedTokens == SumTokenCount(optimized)
  IN  [originalTokens    |-> originalTokens,
       optimizedTokens   |-> optimizedTokens,
       utilization       |-> RatDiv(Int2Rat(optimizedTokens),
                                    Int2Rat(options.tokenBudget)),
       documentsReturned |-> Len(optimized),
       strategy          |-> StrategyCounts(optimized, 1, <<>>)]

(***************************************************************************)
(* Chunking service (packages/mcp-docs/src/chunking/index.ts).             *)
(*                                                                         *)
(* A document is the sequence of its characters; offsets count characters  *)
(* from 0.  Text(chars) is the same string as a text of runs, on which the *)
(* tokenizer and trim work.  The url of a call is copied into every chunk  *)
(* unchanged and is left out.                                              *)
(***************************************************************************)
RECURSIVE Text(_)
Text(chars) ==
  IF chars = <<>> THEN <<>>
  ELSE IF Len(chars) = 1 THEN <<Run(chars[1], 1)>>
  ELSE LET half == Len(chars) \div 2
       IN  Concat(Text(SubSeq(chars, 1, half)),
                  Text(SubSeq(chars, half + 1, Len(chars))))

RECURSIVE Chars(_)
Chars(text) ==
  IF text = <<>> THEN <<>>
  ELSE [k \in 1..text[1].n |-> text[1].w] \o Chars(Tail(text))

\* Index argument of slice: negative counts from the end, clamped to 0..len.
SliceIndex(len, k) ==
  IF k < 0 THEN (IF len + k < 0 THEN 0 ELSE len + k)
  ELSE IF k > len THEN len ELSE k

\* String.prototype.slice(start, end)
Slice(s, start, end) ==
  SubSeq(s, SliceIndex(Len(s), start) + 1, SliceIndex(Len(s), end))

RECURSIVE DropTokens(_, _)
DropTokens(tokens, k) ==
  IF k <= 0 \/ tokens = <<>> THEN tokens
  ELSE IF tokens[1].n <= k
       THEN DropTokens(Tail(tokens), k - tokens[1].n)
       ELSE <<[tokens[1] EXCEPT !.n = @ - k]>> \o Tail(tokens)

\* Array.prototype.slice(start, end) on a token array.
TokenSlice(tokens, start, end) ==
  LET a == SliceIndex(TokenLen(tokens), start)
      b == SliceIndex(TokenLen(tokens), end)
  IN  TakeTokens(DropTokens(tokens, a), b - a)

\* tokenizer.encode(s).length of a character sequence.
CountTokens(s) == TokenCount(Text(s))

\* String.prototype.trim of a character sequence.
TrimChars(s) == Chars(Trim(Text(s)))

(***************************************************************************)
(* preprocessContent.                                                      *)
(***************************************************************************)
\* .replace(/\r\n/g, "\n")
RECURSIVE ReplaceCRLF(_)
ReplaceCRLF(s) ==
  IF Len(s) <= 2
  THEN IF s = <<"\r", "\n">> THEN <<"\n">> ELSE s
  ELSE LET half == Len(s) \div 2
           cut  == IF s[half] = "\r" /\ s[half + 1] = "\n"
                   THEN half + 1 ELSE half
       IN  ReplaceCRLF(SubSeq(s, 1, cut))
             \o ReplaceCRLF(SubSeq(s, cut + 1, Len(s)))

\* .replace(/\n{3,}/g, "\n\n") on the runs of a text.
CollapseNewlines(text) ==
  [i \in 1..Len(text) |->
     IF text[i].w = "\n" /\ text[i].n >= 3 THEN Run("\n", 2) ELSE text[i]]

\* .replace(/[ \t]+/g, " ") on the runs of a text.
RECURSIVE CollapseSpaces(_)
CollapseSpaces(text) ==
  IF text = <<>> THEN <<>>
  ELSE IF text[1].w \in {" ", "\t"}
       THEN LET rest == CollapseSpaces(Tail(text))
            IN  IF rest # <<>> /\ rest[1].w = " "
                THEN rest
                ELSE <<Run(" ", 1)>> \o rest
       ELSE Concat(<<text[1]>>, CollapseSpaces(Tail(text)))

preprocessContent(content) ==
  Chars(Trim(CollapseSpaces(CollapseNewlines(Text(ReplaceCRLF(content))))))

(***************************************************************************)
(* Config.  The constructor spreads the caller's partial record over the   *)
(* defaults.                                                               *)
(***************************************************************************)
DefaultSeparators ==
  << <<"\n", "\n">>, <<"\n">>, <<".", " ">>, <<"!", " ">>, <<"?", " ">> >>

DefaultConfig ==
  [strategy                |-> "late-chunking",
   chunkSize               |-> 512,
   chunkOverlap            |-> 50,
   minChunkSize            |-> 100,
   maxChunkSize            |-> 1000,
   useContextualEmbeddings |-> TRUE,
   semanticSeparators      |-> DefaultSeparators]

ChunkingService(partial) == partial @@ DefaultConfig

\* Minimum used when the configured one is 0.
FallbackMinChunkSize == 50

\* this.config.minChunkSize || 50
MinChunkSize(config) ==
  IF config.minChunkSize # 0 THEN config.minChunkSize ELSE FallbackMinChunkSize

\* A chunk without context metadata.
NoContext == [before |-> <<>>, after |-> <<>>, documentLength |-> 0]

(***************************************************************************)
(* traditionalChunking.  The loop state is [i, chunkIndex, chunks].        *)
(***************************************************************************)
\* One pass of the body of the window loop and its increment.
traditionalWindow(st, tokens, config) ==
  LET chunkTokens  == TokenSlice(tokens, st.i, st.i + config.chunkSize)
      chunkContent == Chars(Decode(chunkTokens))
      next         == st.i + config.chunkSize - config.chunkOverlap
  IN  IF TokenLen(chunkTokens) < MinChunkSize(config)
      THEN [st EXCEPT !.i = next]
      ELSE [i          |-> next,
            chunkIndex |-> st.chunkIndex + 1,
            chunks     |->
              Append(st.chunks,
                     [content     |-> chunkContent,
                      index       |-> st.chunkIndex,
                      startOffset |-> 0,
                      endOffset   |-> Len(chunkContent),
                      tokenCount  |-> TokenLen(chunkTokens),
                      type        |-> "token-based",
                      context     |-> NoContext])]

\* The window loop ends: there is no token, or i grows.
TraditionalReturns(content, config) ==
  content = <<>> \/ config.chunkSize - config.chunkOverlap > 0

RECURSIVE TraditionalLoop(_, _, _)
TraditionalLoop(st, tokens, config) ==
  IF st.i < TokenLen(tokens)
  THEN TraditionalLoop(traditionalWindow(st, tokens, config), tokens, config)
  ELSE st.chunks

\* The chunks of a call that returns.
traditionalChunking(content, config) ==
  TraditionalLoop([i |-> 0, chunkIndex |-> 0, chunks |-> <<>>],
                  Encode(Text(content)), config)

(***************************************************************************)
(* semanticChunking.  The loop state is [chunks, chunkIndex,               *)
(* currentOffset, returns]; returns is FALSE when the call of              *)
(* traditionalChunking on a section does not come back.                    *)
(***************************************************************************)
SetMin(S) == CHOOSE x \in S : \A y \in S : x <= y

\* String.prototype.split(separator), separator not empty.
RECURSIVE Split(_, _)
Split(s, separator) ==
  LET n     == Len(separator)
      found == {p \in 1..(Len(s) - n + 1) : SubSeq(s, p, p + n - 1) = separator}
  IN  IF found = {} THEN <<s>>
      ELSE <<SubSeq(s, 1, SetMin(found) - 1)>>
             \o Split(SubSeq(s, SetMin(found) + n, Len(s)), separator)

\* One pass over the sections with one separator.
RECURSIVE SplitAll(_, _)
SplitAll(sections, separator) ==
  IF sections = <<>> THEN <<>>
  ELSE Split(sections[1], separator) \o SplitAll(Tail(sections), separator)

RECURSIVE SplitSections(_, _)
SplitSections(sections, separators) ==
  IF separators = <<>> THEN sections
  ELSE SplitSections(SplitAll(sections, separators[1]), Tail(separators))

\* semanticSection that leaves the sub-chunks of a large section numbered as
\* traditionalChunking numbered them.
semanticSection_KeepsSubIndex(st, section, config) ==
  LET tokenCount == CountTokens(section)
  IN  IF tokenCount < MinChunkSize(config)
      THEN [st EXCEPT !.currentOffset = @ + Len(section)]
      ELSE IF tokenCount > config.maxChunkSize
      THEN IF ~TraditionalReturns(section, config)
           THEN [st EXCEPT !.returns = FALSE]
           ELSE LET subChunks == traditionalChunking(section, config)
                IN  [chunks |->
                       st.chunks \o
                         [k \in 1..Len(subChunks) |->
                            [subChunks[k] EXCEPT
                               !.startOffset = st.currentOffset + @,
                               !.endOffset = st.currentOffset + @]],
                     chunkIndex    |-> st.chunkIndex + Len(subChunks),
                     currentOffset |-> st.currentOffset + Len(section),
                     returns       |-> TRUE]
      ELSE [chunks |->
              Append(st.chunks,
                     [content     |-> TrimChars(section),
                      index       |-> st.chunkIndex,
                      startOffset |-> st.currentOffset,
                      endOffset   |-> st.currentOffset + Len(section),
                      tokenCount  |-> tokenCount,
                      type        |-> "semantic",
                      context     |-> NoContext]),
            chunkIndex    |-> st.chunkIndex + 1,
            currentOffset |-> st.currentOffset + Len(section),
            returns       |-> TRUE]

\* The body of the loop over the sections.
semanticSection(st, section, config) ==
  LET tokenCount == CountTokens(section)
  IN  IF tokenCount < MinChunkSize(config)
      THEN [st EXCEPT !.currentOffset = @ + Len(section)]
      ELSE IF tokenCount > config.maxChunkSize
      THEN IF ~TraditionalReturns(section, config)
           THEN [st EXCEPT !.returns = FALSE]
           ELSE LET subChunks == traditionalChunking(section, config)
                IN  [chunks |->
                       st.chunks \o
                         [k \in 1..Len(subChunks) |->
                            [subChunks[k] EXCEPT
                               !.index = st.chunkIndex + k - 1,
                               !.startOffset = st.currentOffset + @,
                               !.endOffset = st.currentOffset + @]],
                     chunkIndex    |-> st.chunkIndex + Len(subChunks),
                     currentOffset |-> st.currentOffset + Len(section),
                     returns       |-> TRUE]
      ELSE [chunks |->
              Append(st.chunks,
                     [content     |-> TrimChars(section),
                      index       |-> st.chunkIndex,
                      startOffset |-> st.currentOffset,
                      endOffset   |-> st.currentOffset + Len(section),
                      tokenCount  |-> tokenCount,
                      type        |-> "semantic",
                      context     |-> NoContext]),
            chunkIndex    |-> st.chunkIndex + 1,
            currentOffset |-> st.currentOffset + Len(section),
            returns       |-> TRUE]

RECURSIVE SemanticLoop(_, _, _)
SemanticLoop(st, sections, config) ==
  IF sections = <<>> \/ ~st.returns THEN st
  ELSE SemanticLoop(semanticSection(st, sections[1], config),
                    Tail(sections), config)

semanticChunking(content, config) ==
  SemanticLoop([chunks |-> <<>>, chunkIndex |-> 0, currentOffset |-> 0,
                returns |-> TRUE],
               SplitSections(<<content>>, config.semanticSeparators), config)

(***************************************************************************)
(* sentenceChunking.  The loop state is [currentChunk, chunkIndex,         *)
(* currentOffset, chunks].                                                 *)
(***************************************************************************)
IsTerminator(c) == c \in {".", "!", "?"}

\* content.match(/[^\.!?]+[\.!?]+/g): every run of other characters that is
\* followed by terminators, with all the terminators that follow it.
RECURSIVE MatchSentences(_)
MatchSentences(s) ==
  LET plain == {p \in 1..Len(s) : ~IsTerminator(s[p])}
  IN  IF plain = {} THEN <<>>
      ELSE LET p     == SetMin(plain)
               terms == {q \in p..Len(s) : IsTerminator(s[q])}
           IN  IF terms = {} THEN <<>>
               ELSE LET after == {r \in SetMin(terms)..Len(s) :
                                    ~IsTerminator(s[r])}
                        e     == IF after = {} THEN Len(s)
                                 ELSE SetMin(after) - 1
                    IN  <<SubSeq(s, p, e)>>
                          \o MatchSentences(SubSeq(s, e + 1, Len(s)))

\* content.match(...) || [content]
Sentences(content) ==
  IF MatchSentences(content) = <<>> THEN <<content>>
  ELSE MatchSentences(content)

\* The chunk pushed for the buffer currentChunk.
SentenceChunk(st) ==
  [content     |-> TrimChars(st.currentChunk),
   index       |-> st.chunkIndex,
   startOffset |-> st.currentOffset - Len(st.currentChunk),
   endOffset   |-> st.currentOffset,
   tokenCount  |-> CountTokens(st.currentChunk),
   type        |-> "sentence",
   context     |-> NoContext]

\* sentenceStep that starts counting the offset anew after it pushes a chunk.
sentenceStep_ResetsOffset(st, sentence, config) ==
  LET potentialChunk == st.currentChunk \o <<" ">> \o sentence
      tokenCount     == CountTokens(potentialChunk)
  IN  IF tokenCount > config.chunkSize /\ st.currentChunk # <<>>
      THEN [currentChunk  |-> sentence,
            chunkIndex    |-> st.chunkIndex + 1,
            currentOffset |-> 0,
            chunks        |-> Append(st.chunks, SentenceChunk(st))]
      ELSE [st EXCEPT !.currentChunk = potentialChunk,
                      !.currentOffset = @ + Len(sentence)]

\* The body of the loop over the sentences.
sentenceStep(st, sentence, config) ==
  LET potentialChunk == st.currentChunk \o <<" ">> \o sentence
      tokenCount     == CountTokens(potentialChunk)
  IN  IF tokenCount > config.chunkSize /\ st.currentChunk # <<>>
      THEN [currentChunk  |-> sentence,
            chunkIndex    |-> st.chunkIndex + 1,
            currentOffset |-> st.currentOffset + Len(sentence),
            chunks        |-> Append(st.chunks, SentenceChunk(st))]
      ELSE [st EXCEPT !.currentChunk = potentialChunk,
                      !.currentOffset = @ + Len(sentence)]

RECURSIVE SentenceLoop(_, _, _)
SentenceLoop(st, sentences, config) ==
  IF sentences = <<>> THEN st
  ELSE SentenceLoop(sentenceStep(st, sentences[1], config),
                    Tail(sentences), config)

sentenceChunking(content, config) ==
  LET st == SentenceLoop([currentChunk |-> <<>>, chunkIndex |-> 0,
                          currentOffset |-> 0, chunks |-> <<>>],
                         Sentences(content), config)
  IN  IF TrimChars(st.currentChunk) # <<>>
      THEN Append(st.chunks, SentenceChunk(st))
      ELSE st.chunks

(***************************************************************************)
(* lateChunking.  The loop state is [currentPosition, chunkIndex, chunks]. *)
(* The character at offset p is content[p + 1].                            *)
(***************************************************************************)
\* ^ with the m flag: the start of the string or after a line terminator.
IsLineStart(content, p) == p = 0 \/ content[p] \in {"\n", "\r"}

\* Offsets of the matches of /^#+\s/gm.
HeaderStarts(content) ==
  {p \in 0..(Len(content) - 1) :
     /\ IsLineStart(content, p)
     /\ \E q \in (p + 1)..(Len(content) - 1) :
          /\ \A k \in (p + 1)..q : content[k] = "#"
          /\ IsSpace(content[q + 1])}

\* Number of consecutive newlines that end right before offset p.
NewlinesBefore(content, p) ==
  Cardinality({k \in 1..p : \A j \in k..p : content[j] = "\n"})

\* Offsets of the matches of /\n\n/g, which do not overlap.
ParagraphBreaks(content) ==
  {p \in 0..(Len(content) - 2) :
     /\ content[p + 1] = "\n"
     /\ content[p + 2] = "\n"
     /\ NewlinesBefore(content, p) % 2 = 0}

\* [...new Set(boundaries)].sort((a, b) => a - b)
RECURSIVE Ascending(_)
Ascending(S) ==
  IF S = {} THEN <<>>
  ELSE LET m == SetMin(S) IN <<m>> \o Ascending(S \ {m})

\* The boundaries without repeats, in ascending order.
findSemanticBoundaries(content) ==
  Ascending({0} \cup HeaderStarts(content) \cup ParagraphBreaks(content)
                \cup {Len(content)})

\* Characters estimated per token.
CharsPerToken == 4

\* candidateBoundaries.reduce: the candidate kept so far gives way only to
\* one that is strictly closer to targetEnd.
RECURSIVE Closest(_, _, _, _)
Closest(candidateBoundaries, i, best, targetEnd) ==
  IF i > Len(candidateBoundaries) THEN best
  ELSE Closest(candidateBoundaries, i + 1,
               IF Abs(candidateBoundaries[i] - targetEnd)
                    < Abs(best - targetEnd)
               THEN candidateBoundaries[i] ELSE best,
               targetEnd)

\* b <= targetEnd * 1.2 is 5 * b <= 6 * targetEnd.
IsCandidate(b, content, start, targetEnd) ==
  b > start /\ 5 * b <= 6 * targetEnd /\ b <= Len(content)

\* findOptimalChunkEnd that takes the last candidate.
findOptimalChunkEnd_LastCandidate(content, start, targetSize, boundaries) ==
  LET targetEnd == start + targetSize * CharsPerToken
      candidateBoundaries ==
        SelectSeq(boundaries,
                  LAMBDA b : IsCandidate(b, content, start, targetEnd))
  IN  IF candidateBoundaries = <<>>
      THEN IF targetEnd < Len(content) THEN targetEnd ELSE Len(content)
      ELSE candidateBoundaries[Len(candidateBoundaries)]

findOptimalChunkEnd(content, start, targetSize, boundaries) ==
  LET targetEnd == start + targetSize * CharsPerToken
      candidateBoundaries ==
        SelectSeq(boundaries,
                  LAMBDA b : IsCandidate(b, content, start, targetEnd))
  IN  IF candidateBoundaries = <<>>
      THEN IF targetEnd < Len(content) THEN targetEnd ELSE Len(content)
      ELSE Closest(candidateBoundaries, 2, candidateBoundaries[1], targetEnd)

\* Characters of context taken on each side of a chunk.
ContextWindow == 200

Ellipsis == <<".", ".", ".">>

createContextualMetadata(fullDocument, chunkStart, chunkEnd) ==
  LET from          == IF chunkStart - ContextWindow > 0
                       THEN chunkStart - ContextWindow ELSE 0
      to            == IF Len(fullDocument) < chunkEnd + ContextWindow
                       THEN Len(fullDocument) ELSE chunkEnd + ContextWindow
      beforeContext == TrimChars(Slice(fullDocument, from, chunkStart))
      afterContext  == TrimChars(Slice(fullDocument, chunkEnd, to))
  IN  [before |-> IF beforeContext # <<>> THEN Ellipsis \o beforeContext
                  ELSE <<>>,
       after  |-> IF afterContext # <<>> THEN afterContext \o Ellipsis
                  ELSE <<>>,
       documentLength |-> Len(fullDocument)]

Max(a, b) == IF a > b THEN a ELSE b

\* lateStep that moves on from the end of the chunk only.
lateStep_FromChunkEndOnly(st, content, semanticBoundaries, config) ==
  LET chunkEnd     == findOptimalChunkEnd(content, st.currentPosition,
                                          config.chunkSize, semanticBoundaries)
      chunkContent == Slice(content, st.currentPosition, chunkEnd)
      tokenCount   == CountTokens(chunkContent)
  IN  IF tokenCount < MinChunkSize(config)
      THEN [st EXCEPT !.currentPosition = chunkEnd]
      ELSE [currentPosition |-> chunkEnd - config.chunkOverlap,
            chunkIndex |-> st.chunkIndex + 1,
            chunks |->
              Append(st.chunks,
                     [content     |-> chunkContent,
                      index       |-> st.chunkIndex,
                      startOffset |-> st.currentPosition,
                      endOffset   |-> chunkEnd,
                      tokenCount  |-> tokenCount,
                      type        |-> "semantic",
                      context     |->
                        createContextualMetadata(content, st.currentPosition,
                                                 chunkEnd)])]

\* One pass of the body of the scan loop.
lateStep(st, content, semanticBoundaries, config) ==
  LET chunkEnd     == findOptimalChunkEnd(content, st.currentPosition,
                                          config.chunkSize, semanticBoundaries)
      chunkContent == Slice(content, st.currentPosition, chunkEnd)
      tokenCount   == CountTokens(chunkContent)
  IN  IF tokenCount < MinChunkSize(config)
      THEN [st EXCEPT !.currentPosition = chunkEnd]
      ELSE [currentPosition |->
              Max(st.currentPosition + config.chunkSize - config.chunkOverlap,
                  chunkEnd - config.chunkOverlap),
            chunkIndex |-> st.chunkIndex + 1,
            chunks |->
              Append(st.chunks,
                     [content     |-> chunkContent,
                      index       |-> st.chunkIndex,
                      startOffset |-> st.currentPosition,
                      endOffset   |-> chunkEnd,
                      tokenCount  |-> tokenCount,
                      type        |-> "semantic",
                      context     |->
                        createContextualMetadata(content, st.currentPosition,
                                                 chunkEnd)])]

(***************************************************************************)
(* KnowledgeBase and the FlexSearch provider.  An index file is modelled   *)
(* by what the code reads of it: whether it exists, the value of its       *)
(* "type" key, whether one of its keys reg, ctx, map is truthy, and its    *)
(* "documents".                                                            *)
(***************************************************************************)
\* tokenLimit = 10000 in the parameters of search.
DefaultTokenLimit == 10000

\* limit: 25 in the search options that KnowledgeBase.search passes.
SearchLimit == 25

NoFile == [exists |-> FALSE, type |-> "", reg |-> FALSE, documents |-> <<>>]

\* FlexSearchProvider.createIndex: the object it writes to outputPath.
indexData(documents) ==
  [exists    |-> TRUE,
   type      |-> "flexsearch",
   reg       |-> FALSE,
   documents |-> [i \in 1..Len(documents) |->
                    [url     |-> documents[i].url,
                     content |-> documents[i].content]]]

NoIndex == [provider |-> "none", documents |-> <<>>]

\* FlexSearchProvider.loadIndex.
loadIndex(file) ==
  IF file.type # "flexsearch"
  THEN [error |-> "Expected FlexSearch index", index |-> NoIndex]
  ELSE [error |-> "",
        index |-> [provider |-> "flexsearch", documents |-> file.documents]]

\* String.prototype.toLowerCase on the letters of urls, texts and queries.
toLowerCase(w) ==
  IF w = "X" THEN "x"
  ELSE IF w = "Y" THEN "y"
  ELSE IF w = "A" THEN "a"
  ELSE w

\* text.toLowerCase().includes(query.toLowerCase()) for a query of one
\* letter.
TextIncludes(text, query) ==
  \E i \in 1..Len(text) :
    text[i].n > 0 /\ toLowerCase(text[i].w) = toLowerCase(query)

\* The same for a url, which is one letter.
UrlIncludes(url, query) == toLowerCase(url) = toLowerCase(query)

\* FlexSearchIndex.search.
FlexSearchIndex_search(documents, query, limit) ==
  LET Matches(doc) ==
        TextIncludes(doc.content, query) \/ UrlIncludes(doc.url, query)
      results == SelectSeq(documents, Matches)
      sliced  == SubSeq(results, 1,
                        IF Len(results) < limit THEN Len(results) ELSE limit)
  IN  [i \in 1..Len(sliced) |->
         [url      |-> sliced[i].url,
          content  |-> sliced[i].content,
          score    |-> Rat(1, 1),
          metadata |-> NoMetadata]]

\* The two paths the constructor looks for under config.path.
VectraIndexPath == "docs-vectra-index"

FlexSearchIndexPath == "docs-index.json"

\* indexPath.endsWith(".json")
EndsWithJson(indexPath) == indexPath = FlexSearchIndexPath

\* KnowledgeBase.isFlexSearchIndex.  A file that cannot be read makes
\* readFile throw, which the catch turns into false.
isFlexSearchIndex(indexPath, files) ==
  IF ~EndsWithJson(indexPath) THEN FALSE
  ELSE IF ~files.flex.exists THEN FALSE
  ELSE files.flex.reg

\* KnowledgeBase.loadSearchIndex with loadVectraIndex and
\* loadFlexSearchIndex.  VectraProvider.loadIndex opens nothing: the
\* directory is read when the index is searched.
loadSearchIndex(base, files) ==
  IF base.isVectra
  THEN [error |-> "", index |-> [provider |-> "vectra", documents |-> <<>>]]
  ELSE IF isFlexSearchIndex(base.indexPath, files)
  THEN loadIndex(files.flex)
  ELSE [error |-> "Unknown index format", index |-> NoIndex]

\* The arguments of the SearchOptimizer that search creates.
SearchOptimization(tokenLimit) ==
  [tokenBudget           |-> tokenLimit,
   fullDocumentThreshold |-> 3,
   targetUtilization     |-> Rat(9, 10)]

(***************************************************************************)
(* State: an optimizer (its options), the hit list of one call, and what   *)
(* the call computed; a chunking service (its config), the document of the *)
(* call in progress, the position and locals of its loop, and what the     *)
(* calls so far returned; the index files on disk, a KnowledgeBase (its    *)
(* fields; its optimizer is the optimizer above) and the outcome of the    *)
(* last call made on it.                                                   *)
(***************************************************************************)
VARIABLES options, hits, pc, sortedGroups, optimizedResults, stats, calls

VARIABLES config, document, content, cpc, position, chunkIndex, chunks,
          history

VARIABLES disk, kb, response

optimizerVars ==
  <<options, hits, pc, sortedGroups, optimizedResults, stats, calls>>

chunkingVars ==
  <<config, document, content, cpc, position, chunkIndex, chunks, history>>

kbVars == <<disk, kb, response>>

vars == <<optimizerVars, chunkingVars, kbVars>>

\* Contents of hits: a short padded text and two long ones.
Small == <<Run(" ", 1), Run("a", 2), Run(" ", 1)>>

Short == <<Run("s", 3)>>

Mid == <<Run("m", 400)>>

Big == <<Run("b", 600)>>

HitLists(hitSet, maxLen) == UNION {[1..n -> hitSet] : n \in 0..maxLen}

\* Hits with long contents, against budgets of about a thousand tokens.
PackHits ==
  [url : {"X", "Y", "Z"}, content : {Small, Mid, Big},
   score : {Rat(9, 10)}, metadata : {NoMetadata}]

PackOptions ==
  {[tokenBudget |-> 1000],
   [tokenBudget |-> 1001],
   [tokenBudget |-> 1000, targetUtilization |-> Int2Rat(1),
    fullDocumentThreshold |-> 2]}

\* Hits of one document with scores at and around the thresholds of scoring
\* and strategy.
RankHits ==
  [url : {"X"}, content : {Small},
   score : {Rat(1, 2), Rat(3, 4), Rat(4, 5), Rat(17, 20), Rat(9, 10)},
   metadata : {NoMetadata}]

RankOptions ==
  {<<>>,
   [fullDocumentThreshold |-> 1],
   [fullDocumentThreshold |-> 2]}

\* Hits that carry metadata.
ContextHits ==
  [url : {"X", "Y"}, content : {Small, Short},
   score : {Rat(1, 2), Rat(9, 10)},
   metadata :
     {NoMetadata,
      [tokenCount |-> 7, chunkIndex |-> 2, contextBefore |-> <<>>,
       contextAfter |-> <<>>],
      [tokenCount |-> 0, chunkIndex |-> 1, contextBefore |-> <<Run("p", 1)>>,
       contextAfter |-> <<Run("q", 2)>>]}]

ContextOptions ==
  {[tokenBudget |-> 1000],
   [tokenBudget |-> 1000, fullDocumentThreshold |-> 2]}

\* Many hits of few kinds.
ScenarioHits ==
  [url : {"X", "Y"}, content : {Small}, score : {Rat(1, 2), Rat(9, 10)},
   metadata : {NoMetadata}]

\* Hits of three urls with two scores.
OrderHits ==
  [url : {"X", "Y", "Z"}, content : {Small}, score : {Rat(1, 2), Rat(9, 10)},
   metadata : {NoMetadata}]

\* Hits of one document that differ in content, score and chunkIndex.
TopHits ==
  {[url |-> "X", content |-> Small, score |-> Rat(1, 2),
    metadata |-> NoMetadata],
   [url |-> "X", content |-> Short, score |-> Rat(3, 5),
    metadata |-> NoMetadata],
   [url |-> "X", content |-> Short, score |-> Rat(1, 2),
    metadata |-> [NoMetadata EXCEPT !.chunkIndex = 1]],
   [url |-> "X", content |-> Small, score |-> Rat(3, 5),
    metadata |-> [NoMetadata EXCEPT !.chunkIndex = 2]]}

OrderOptions ==
  {[tokenBudget |-> 1000], [tokenBudget |-> 1234], [tokenBudget |-> 0]}

NoStats ==
  [originalTokens |-> 0, optimizedTokens |-> 0, utilization |-> Int2Rat(0),
   documentsReturned |-> 0, strategy |-> <<>>]

\* No chunking service has been constructed.
\* No KnowledgeBase was constructed.
NoKnowledgeBaseFields ==
  [constructed  |-> FALSE,
   indexPath    |-> "",
   isVectra     |-> FALSE,
   openaiApiKey |-> FALSE,
   optimization |-> <<>>,
   searchIndex  |-> NoIndex]

NoResponse == [operation |-> "none", request |-> <<>>, kind |-> "none",
               message |-> ""]

NoKnowledgeBase ==
  /\ disk = [vectra |-> FALSE, flex |-> NoFile]
  /\ kb = NoKnowledgeBaseFields
  /\ response = NoResponse

NoChunkingService ==
  /\ config = <<>>
  /\ document = <<>>
  /\ content = <<>>
  /\ cpc = "none"
  /\ position = 0
  /\ chunkIndex = 0
  /\ chunks = <<>>
  /\ history = <<>>

Init ==
  /\ \/ /\ hits \in HitLists(PackHits, MaxHits)
        /\ \E partial \in PackOptions : options = SearchOptimizer(partial)
     \/ /\ hits \in HitLists(RankHits, MaxRankHits)
        /\ \E partial \in RankOptions : options = SearchOptimizer(partial)
     \/ /\ hits \in HitLists(ContextHits, MaxContextHits)
        /\ \E partial \in ContextOptions : options = SearchOptimizer(partial)
     \/ /\ hits \in HitLists(ScenarioHits, MaxScenarioHits)
        /\ options = SearchOptimizer([tokenBudget |-> 1000])
     \/ /\ hits \in HitLists(TopHits, MaxTopHits)
        /\ options = SearchOptimizer([tokenBudget |-> 1000])
     \/ /\ hits \in HitLists(OrderHits, MaxOrderHits)
        /\ \E partial \in OrderOptions : options = SearchOptimizer(partial)
  /\ pc = "ready"
  /\ sortedGroups = <<>>
  /\ optimizedResults = <<>>
  /\ stats = NoStats
  /\ calls = <<>>
  /\ NoChunkingService
  /\ NoKnowledgeBase

\* resultsAfterCall that sorts the caller's array as the call sorts the
\* arrays of its groups.
resultsAfterCall_SortedInPlace(results) == SortByChunkIndex(results, 1, <<>>)

\* The caller's array when the call is over.  The call reads it in
\* groupByDocument and generateStats; the arrays it sorts in place are the
\* chunks arrays that groupByDocument created and the slice of one of them.
resultsAfterCall(results) == results

\* calls records, per call, the array passed, the array as the call left it,
\* and what the call returned.
optimizeResults ==
  /\ pc = "ready"
  /\ LET documentGroups == groupByDocument(hits)
         scoredGroups   == calculateRelevanceScores(documentGroups)
         sorted         == SortGroups(scoredGroups, 1, <<>>)
         packed         == applyOptimizationStrategy(sorted, options)
     IN  /\ sortedGroups' = packed.groups
         /\ optimizedResults' = packed.results
         /\ stats' = generateStats(hits, packed.results, options)
         /\ hits' = resultsAfterCall(hits)
         /\ calls' = Append(calls,
                            [results          |-> hits,
                             after            |-> resultsAfterCall(hits),
                             optimizedResults |-> packed.results,
                             stats            |->
                               generateStats(hits, packed.results, options)])
  /\ pc' = "done"
  /\ UNCHANGED options
  /\ UNCHANGED chunkingVars
  /\ UNCHANGED kbVars

Next == optimizeResults

Spec == Init /\ [][Next]_vars

(***************************************************************************)
(* Several calls of optimizeResults on one optimizer: the caller passes a  *)
(* hit list, then the same list or another one, then the first one again.  *)
(***************************************************************************)
RepeatInit ==
  /\ hits \in HitLists(TopHits, MaxTopHits)
  /\ options = SearchOptimizer([tokenBudget |-> 1000])
  /\ pc = "ready"
  /\ sortedGroups = <<>>
  /\ optimizedResults = <<>>
  /\ stats = NoStats
  /\ calls = <<>>
  /\ NoChunkingService
  /\ NoKnowledgeBase

\* A hit list that a caller passes between two calls with the same list.
OtherHits ==
  <<[url |-> "Y", content |-> Small, score |-> Rat(9, 10),
     metadata |-> NoMetadata]>>

\* The caller takes the array for its next call.
nextCall ==
  /\ pc = "done"
  /\ Len(calls) < MaxOptimizerCalls
  /\ hits' \in IF Len(calls) = 1 THEN {calls[1].results, OtherHits}
               ELSE {calls[1].results}
  /\ pc' = "ready"
  /\ UNCHANGED <<options, sortedGroups, optimizedResults, stats, calls>>
  /\ UNCHANGED chunkingVars
  /\ UNCHANGED kbVars

RepeatNext == optimizeResults \/ nextCall

RepeatSpec == RepeatInit /\ [][RepeatNext]_vars

(***************************************************************************)
(* Chunking service: configs and documents of the calls.  A document is a  *)
(* concatenation of a few pieces; the pieces and the configs go with the   *)
(* strategy so that chunk sizes of a few tokens meet documents of a few    *)
(* tokens.                                                                 *)
(***************************************************************************)
RECURSIVE Flatten(_)
Flatten(pieces) ==
  IF pieces = <<>> THEN <<>> ELSE pieces[1] \o Flatten(Tail(pieces))

Documents(pieces, maxLen) ==
  {Flatten(ps) : ps \in UNION {[1..n -> pieces] : n \in 0..maxLen}}

TraditionalConfigs ==
  {[strategy |-> "traditional", chunkSize |-> 2, chunkOverlap |-> 1,
    minChunkSize |-> 1],
   [strategy |-> "traditional", chunkSize |-> 3, chunkOverlap |-> 0,
    minChunkSize |-> 2],
   [strategy |-> "traditional", chunkSize |-> 2, chunkOverlap |-> 1,
    minChunkSize |-> 0],
   [strategy |-> "traditional", chunkSize |-> 2, chunkOverlap |-> 2,
    minChunkSize |-> 1],
   [strategy |-> "traditional", chunkSize |-> 1, chunkOverlap |-> 1,
    minChunkSize |-> 2],
   [strategy |-> "paragraph", chunkSize |-> 2, chunkOverlap |-> 1,
    minChunkSize |-> 1]}

SentenceConfigs ==
  {[strategy |-> "sentence", chunkSize |-> 3, chunkOverlap |-> 1,
    minChunkSize |-> 1],
   [strategy |-> "sentence", chunkSize |-> 6, chunkOverlap |-> 0,
    minChunkSize |-> 4],
   [strategy |-> "sentence", chunkSize |-> 3, chunkOverlap |-> 3,
    minChunkSize |-> 1]}

SemanticConfigs ==
  {[strategy |-> "semantic", chunkSize |-> 2, chunkOverlap |-> 1,
    minChunkSize |-> 2, maxChunkSize |-> 3],
   [strategy |-> "semantic", chunkSize |-> 2, chunkOverlap |-> 0,
    minChunkSize |-> 1, maxChunkSize |-> 2],
   [strategy |-> "semantic", chunkSize |-> 2, chunkOverlap |-> 2,
    minChunkSize |-> 2, maxChunkSize |-> 3],
   [strategy |-> "semantic", chunkSize |-> 2, chunkOverlap |-> 1,
    minChunkSize |-> 0, maxChunkSize |-> 3]}

LateConfigs ==
  {<<>>,
   [chunkSize |-> 1, chunkOverlap |-> 0, minChunkSize |-> 3],
   [chunkSize |-> 2, chunkOverlap |-> 1, minChunkSize |-> 1],
   [chunkSize |-> 4, chunkOverlap |-> 0, minChunkSize |-> 1],
   [chunkSize |-> 1, chunkOverlap |-> 3, minChunkSize |-> 1]}

ConfigInputs ==
  TraditionalConfigs \cup SentenceConfigs \cup SemanticConfigs
    \cup LateConfigs

\* A markdown section of SectionTokens tokens: a header mark, a body of one
\* token per character, and the end of its last line.
Section ==
  <<"#", " ">> \o [i \in 1..(SectionTokens - 3) |-> "a"] \o <<"\n">>

\* Documents of one to MaxSections sections.
SectionDocuments ==
  {Flatten([i \in 1..k |-> Section]) : k \in 1..MaxSections}

\* Two headers at the same distance before and after the eighth character.
TwoHeaders == <<"a", "a", "a", "a", "a", "a", "\n", "#", "\n", "#", " ", "a">>

\* A one-character paragraph followed by a long one.
LongParagraph == <<"a", "\n", "\n">> \o [i \in 1..17 |-> "a"]

\* The documents a caller passes to a service of the given strategy, and one
\* more document it passes between two calls with the same document.
DocumentsOf(strategy) ==
  CASE strategy = "late-chunking" ->
         Documents({<<"a", "a", "a">>, <<"\n", "\n">>, <<"#", " ">>},
                   MaxLatePieces)
           \cup {TwoHeaders, LongParagraph}
    [] strategy = "semantic" ->
         Documents({<<"a">>, <<"a", "a", "a">>, <<"\n">>}, MaxSemanticPieces)
    [] strategy = "sentence" ->
         Documents({<<"a">>, <<".">>, <<" ">>}, MaxSentencePieces)
    [] OTHER ->
         Documents({<<"a">>, <<" ">>, <<"\r", "\n">>}, MaxTraditionalPieces)

OtherDocument(strategy) ==
  CASE strategy = "late-chunking" ->
         <<"a", "a", "a", "\n", "\n", "a", "a", "a">>
    [] strategy = "semantic" -> <<"a", "a", "\n", "a", "a", "a", "a">>
    [] strategy = "sentence" -> <<"a", ".", "a", ".">>
    [] OTHER -> <<"a", " ", "a">>

\* No optimizer call is made.
NoOptimizer ==
  /\ options = DefaultOptions
  /\ hits = <<>>
  /\ pc = "none"
  /\ sortedGroups = <<>>
  /\ optimizedResults = <<>>
  /\ stats = NoStats
  /\ calls = <<>>

ChunkInit ==
  /\ NoOptimizer
  /\ NoKnowledgeBase
  /\ \E partial \in ConfigInputs : config = ChunkingService(partial)
  /\ document = <<>>
  /\ content = <<>>
  /\ cpc = "idle"
  /\ position = 0
  /\ chunkIndex = 0
  /\ chunks = <<>>
  /\ history = <<>>

\* NewScan that goes on counting from the call before.
NewScan_KeepsIndex ==
  [position |-> 0, chunkIndex |-> chunkIndex, chunks |-> <<>>]

\* The locals of a loop when a call enters it.
NewScan == [position |-> 0, chunkIndex |-> 0, chunks |-> <<>>]

\* The call for document d returns result to the caller.
Return(d, result) ==
  /\ cpc' = "returned"
  /\ chunks' = result
  /\ history' = Append(history, [document |-> d, chunks |-> result])

\* The documents of the next call.
CallDocuments ==
  IF history = <<>>
  THEN IF config = DefaultConfig THEN SectionDocuments
       ELSE DocumentsOf(config.strategy)
  ELSE IF Len(history) = 1
       THEN {history[1].document, OtherDocument(config.strategy)}
       ELSE {history[1].document}

chunkDocument ==
  /\ cpc \in {"idle", "returned"}
  /\ Len(history) < MaxCalls
  /\ \E d \in CallDocuments :
       LET cleanedContent == preprocessContent(d)
       IN  /\ document' = d
           /\ content' = cleanedContent
           /\ CASE config.strategy = "late-chunking" ->
                     /\ cpc' = "late"
                     /\ position' = NewScan.position
                     /\ chunkIndex' = NewScan.chunkIndex
                     /\ chunks' = NewScan.chunks
                     /\ UNCHANGED history
                [] config.strategy = "semantic" ->
                     LET st == semanticChunking(cleanedContent, config)
                     IN  /\ IF st.returns
                            THEN Return(d, st.chunks)
                            ELSE /\ cpc' = "hung"
                                 /\ chunks' = st.chunks
                                 /\ UNCHANGED history
                         /\ UNCHANGED <<position, chunkIndex>>
                [] config.strategy = "sentence" ->
                     /\ Return(d, sentenceChunking(cleanedContent, config))
                     /\ UNCHANGED <<position, chunkIndex>>
                [] OTHER ->
                     /\ cpc' = "traditional"
                     /\ position' = NewScan.position
                     /\ chunkIndex' = NewScan.chunkIndex
                     /\ chunks' = NewScan.chunks
                     /\ UNCHANGED history
  /\ UNCHANGED config
  /\ UNCHANGED optimizerVars
  /\ UNCHANGED kbVars

\* A loop whose position does not grow is followed while it has pushed fewer
\* than MaxChunks chunks.
Followed ==
  config.chunkSize - config.chunkOverlap > 0 \/ Len(chunks) < MaxChunks

\* One pass of the window loop of traditionalChunking, or its return.
traditionalChunkingLoop ==
  /\ cpc = "traditional"
  /\ LET tokens == Encode(Text(content))
     IN  IF position < TokenLen(tokens)
         THEN /\ Followed
              /\ LET st == traditionalWindow(
                             [i |-> position, chunkIndex |-> chunkIndex,
                              chunks |-> chunks], tokens, config)
                 IN  /\ position' = st.i
                     /\ chunkIndex' = st.chunkIndex
                     /\ chunks' = st.chunks
              /\ UNCHANGED <<cpc, history>>
         ELSE /\ Return(document, chunks)
              /\ UNCHANGED <<position, chunkIndex>>
  /\ UNCHANGED <<config, document, content>>
  /\ UNCHANGED optimizerVars
  /\ UNCHANGED kbVars

\* One pass of the scan loop of lateChunking, or its return.
lateChunkingLoop ==
  /\ cpc = "late"
  /\ IF position < Len(content)
     THEN /\ Followed
          /\ LET st == lateStep(
                         [currentPosition |-> position,
                          chunkIndex |-> chunkIndex, chunks |-> chunks],
                         content, findSemanticBoundaries(content), config)
             IN  /\ position' = st.currentPosition
                 /\ chunkIndex' = st.chunkIndex
                 /\ chunks' = st.chunks
          /\ UNCHANGED <<cpc, history>>
     ELSE /\ Return(document, chunks)
          /\ UNCHANGED <<position, chunkIndex>>
  /\ UNCHANGED <<config, document, content>>
  /\ UNCHANGED optimizerVars
  /\ UNCHANGED kbVars

ChunkNext == chunkDocument \/ traditionalChunkingLoop \/ lateChunkingLoop

ChunkSpec == ChunkInit /\ [][ChunkNext]_vars

(***************************************************************************)
(* A KnowledgeBase over the index files of one directory: an index is      *)
(* built, the KnowledgeBase is constructed, searches are made.             *)
(***************************************************************************)
\* Documents handed to createIndex.
IndexDocuments ==
  {[url |-> "X", content |-> Small],
   [url |-> "X", content |-> Short],
   [url |-> "Y", content |-> Short]}

\* A file exported by the FlexSearch library, with its reg, ctx and map keys.
NativeExport ==
  [exists |-> TRUE, type |-> "", reg |-> TRUE, documents |-> <<>>]

\* A file of the provider's layout to which a reg key was added.
PatchedFile ==
  [indexData(<<[url |-> "X", content |-> Small],
               [url |-> "X", content |-> Short]>>) EXCEPT !.reg = TRUE]

\* The optimization argument of the constructor: absent, one option, all.
Optimizations ==
  {<<>>,
   [fullDocumentThreshold |-> 2],
   [tokenBudget |-> 1000, fullDocumentThreshold |-> 2,
    targetUtilization |-> Rat(1, 2)]}

Queries == {"A", "x", "q"}

\* The options of a search: tokenLimit absent or given.
Requests ==
  {[query |-> q] : q \in Queries}
    \cup {[query |-> q, tokenLimit |-> 1000] : q \in Queries}

\* What VectraIndex.search can give: it asks an embedding service and reads
\* the index directory, and returns the hits of a score of 0.7 or more.
VectraOutcomes ==
  LET first  == [url |-> "X", content |-> Small, score |-> Rat(9, 10),
                 metadata |-> [NoMetadata EXCEPT !.chunkIndex = 1]]
      second == [url |-> "X", content |-> Short, score |-> Rat(4, 5),
                 metadata |-> NoMetadata]
  IN  {[error |-> "Vectra search failed", results |-> <<>>],
       [error |-> "", results |-> <<>>],
       [error |-> "", results |-> <<first>>],
       [error |-> "", results |-> <<first, second>>]}

KbInit ==
  /\ NoOptimizer
  /\ NoChunkingService
  /\ disk \in [vectra : BOOLEAN, flex : {NoFile, NativeExport, PatchedFile}]
  /\ kb = NoKnowledgeBaseFields
  /\ response = NoResponse

\* FlexSearchProvider.createIndex(documents, FlexSearchIndexPath).
createIndex ==
  /\ \E documents \in HitLists(IndexDocuments, MaxIndexDocuments) :
       disk' = [disk EXCEPT !.flex = indexData(documents)]
  /\ UNCHANGED <<kb, response>>
  /\ UNCHANGED optimizerVars
  /\ UNCHANGED chunkingVars

\* new KnowledgeBase({path, optimization, apiKey}); apiKey stands for
\* apiKey || process.env.OPENAI_API_KEY, useVectra for USE_VECTRA === "true".
KnowledgeBase ==
  /\ ~kb.constructed
  /\ \E optimization \in Optimizations, apiKey \in BOOLEAN,
        useVectra \in BOOLEAN :
       LET determinedPath ==
             IF useVectra /\ disk.vectra THEN VectraIndexPath
             ELSE IF disk.vectra THEN VectraIndexPath
             ELSE IF disk.flex.exists THEN FlexSearchIndexPath
             ELSE ""
           isVectra == determinedPath = VectraIndexPath
           Throw(message) ==
             /\ response' = [operation |-> "constructor", request |-> <<>>,
                             kind |-> "error", message |-> message]
             /\ UNCHANGED <<kb, options>>
       IN  IF determinedPath = "" THEN Throw("No search index found")
           ELSE IF isVectra /\ ~apiKey
           THEN Throw("OpenAI API key required for Vectra provider")
           ELSE /\ kb' = [constructed  |-> TRUE,
                          indexPath    |-> determinedPath,
                          isVectra     |-> isVectra,
                          openaiApiKey |-> apiKey,
                          optimization |-> optimization,
                          searchIndex  |-> NoIndex]
                /\ options' = SearchOptimizer(optimization)
                /\ response' = [operation |-> "constructor",
                                request |-> <<>>, kind |-> "constructed",
                                message |-> ""]
  /\ UNCHANGED <<disk, hits, pc, sortedGroups, optimizedResults, stats,
                 calls>>
  /\ UNCHANGED chunkingVars

\* KnowledgeBase.search({query, tokenLimit}).
search ==
  /\ kb.constructed
  /\ \E request \in Requests :
       LET tokenLimit ==
             IF "tokenLimit" \in DOMAIN request THEN request.tokenLimit
             ELSE DefaultTokenLimit
           loaded ==
             IF kb.searchIndex.provider # "none"
             THEN [error |-> "", index |-> kb.searchIndex]
             ELSE loadSearchIndex(kb, disk)
           Resolve(kind, message) ==
             response' = [operation |-> "search", request |-> request,
                          kind |-> kind, message |-> message]
           NoCall ==
             UNCHANGED <<hits, sortedGroups, optimizedResults, stats>>
       IN  IF loaded.error # ""
           THEN /\ Resolve("error", loaded.error)
                /\ UNCHANGED <<kb, options>>
                /\ NoCall
           ELSE /\ kb' = [kb EXCEPT !.searchIndex = loaded.index]
                /\ options' =
                     SearchOptimizer(SearchOptimization(tokenLimit))
                /\ \E raw \in
                       IF loaded.index.provider = "flexsearch"
                       THEN {[error   |-> "",
                              results |->
                                FlexSearchIndex_search(
                                  loaded.index.documents, request.query,
                                  SearchLimit)]}
                       ELSE VectraOutcomes :
                     IF raw.error # ""
                     THEN Resolve("error", raw.error) /\ NoCall
                     ELSE IF raw.results = <<>>
                     THEN Resolve("text", "No results found") /\ NoCall
                     ELSE LET rawResults     == raw.results
                              documentGroups == groupByDocument(rawResults)
                              scoredGroups   ==
                                calculateRelevanceScores(documentGroups)
                              sorted         ==
                                SortGroups(scoredGroups, 1, <<>>)
                              packed         ==
                                applyOptimizationStrategy(sorted, options')
                          IN  /\ hits' = rawResults
                              /\ sortedGroups' = packed.groups
                              /\ optimizedResults' = packed.results
                              /\ stats' = generateStats(rawResults,
                                                        packed.results,
                                                        options')
                              /\ IF packed.results = <<>>
                                 THEN Resolve("text",
                                             "No results found after optimization")
                                 ELSE Resolve("text", "Search Results Summary")
  /\ UNCHANGED <<disk, pc, calls>>
  /\ UNCHANGED chunkingVars

KbNext == createIndex \/ KnowledgeBase \/ search

KbSpec == KbInit /\ [][KbNext]_vars

\* C22: after a search that returned results, every option that was given
\* to the constructor of the KnowledgeBase has the given value in the
\* optimizer that was applied to the hits; a tokenLimit given to the search
\* may take the place of tokenBudget.
C22_ConstructorOptionsGovern ==
  (/\ response.operation = "search"
   /\ response.message = "Search Results Summary") =>
     \A f \in DOMAIN kb.optimization :
       \/ f = "tokenBudget" /\ "tokenLimit" \in DOMAIN response.request
       \/ options[f] = kb.optimization[f]

\* C23: the first search of a KnowledgeBase that took the FlexSearch index
\* file, when that file is as FlexSearchProvider.createIndex writes it,
\* loads the index and returns text; it does not fail.
C23_ProviderIndexIsLoaded ==
  [][(/\ kb.constructed
      /\ ~kb.isVectra
      /\ kb.searchIndex.provider = "none"
      /\ \E documents \in HitLists(IndexDocuments, MaxIndexDocuments) :
           disk.flex = indexData(documents)
      /\ response' # response
      /\ response'.operation = "search") =>
        /\ response'.kind = "text"
        /\ kb'.searchIndex.provider = "flexsearch"]_vars

(***************************************************************************)
(* Properties of the chunking service.  chunks holds the chunks pushed so  *)
(* far by the call in progress or returned by the last call; history holds *)
(* the document and the chunks of every call that returned.                *)
(***************************************************************************)
Strategies == {"traditional", "late-chunking", "semantic", "sentence"}

OffsetStrategies == {"late-chunking", "semantic", "sentence"}

ValidOverlap ==
  0 <= config.chunkOverlap /\ config.chunkOverlap < config.chunkSize

\* C12: a service whose chunkOverlap is at least its chunkSize is turned down
\* before it processes anything: it enters no loop, pushes no chunk and
\* returns from no call.
C12_OverlapRejected ==
  config.chunkOverlap >= config.chunkSize =>
    /\ cpc \notin {"traditional", "late"}
    /\ chunks = <<>>
    /\ history = <<>>

\* C13: a service whose strategy is none of the four turns every call down
\* before a chunk is produced: it enters no loop of another strategy, pushes
\* no chunk and returns from no call.
C13_UnknownStrategyRejected ==
  config.strategy \notin Strategies =>
    /\ cpc # "traditional"
    /\ chunks = <<>>
    /\ \A k \in 1..Len(history) : FALSE

\* C14: under every strategy a call for a document that is empty, or whose
\* token count is below minChunkSize, returns no chunk.
C14_DegenerateDocumentGivesNothing ==
  \A k \in 1..Len(history) :
    LET cleaned == preprocessContent(history[k].document)
    IN  (cleaned = <<>> \/ CountTokens(cleaned) < config.minChunkSize) =>
          history[k].chunks = <<>>

\* C15: every chunk a call returned has content that is not empty after
\* trimming and a tokenCount of at least minChunkSize.
C15_ChunksMeetMinimum ==
  \A c \in 1..Len(history) :
    \A k \in 1..Len(history[c].chunks) :
      /\ TrimChars(history[c].chunks[k].content) # <<>>
      /\ history[c].chunks[k].tokenCount >= config.minChunkSize

\* C16: the index fields of the chunks are 0, 1, ..., n - 1 in the order of
\* the chunks, at every point of a call and in what it returns.
C16_IndexIsOrdinal ==
  \A k \in 1..Len(chunks) : chunks[k].index = k - 1

\* A semantic call that returned a chunk of a section, then skipped a small
\* section, then replaced a large section by several sub-chunks.
C16_Witness ==
  /\ cpc = "returned"
  /\ config.strategy = "semantic"
  /\ Len(chunks) >= 3
  /\ chunks[1].type = "semantic"
  /\ chunks[2].type = "token-based"
  /\ chunks[3].type = "token-based"
  /\ chunks[2].startOffset > chunks[1].endOffset

\* C17: every chunk a call of the semantic, sentence or late-chunking
\* strategy returned has 0 <= startOffset < endOffset <= length of the
\* normalized document.
C17_OffsetsInsideDocument ==
  config.strategy \in OffsetStrategies =>
    \A c \in 1..Len(history) :
      \A k \in 1..Len(history[c].chunks) :
        /\ 0 <= history[c].chunks[k].startOffset
        /\ history[c].chunks[k].startOffset < history[c].chunks[k].endOffset
        /\ history[c].chunks[k].endOffset
             <= Len(preprocessContent(history[c].document))

\* C18: the startOffset of the chunks a call of the semantic, sentence or
\* late-chunking strategy returned never decreases along the chunks.
C18_StartOffsetsAscend ==
  config.strategy \in OffsetStrategies =>
    \A c \in 1..Len(history) :
      \A k \in 1..(Len(history[c].chunks) - 1) :
        history[c].chunks[k].startOffset
          <= history[c].chunks[k + 1].startOffset

\* A semantic call that returned sub-chunks with one startOffset after a
\* chunk with a smaller one.
C18_Witness ==
  /\ cpc = "returned"
  /\ config.strategy = "semantic"
  /\ \E k \in 1..(Len(chunks) - 2) :
       /\ chunks[k].startOffset < chunks[k + 1].startOffset
       /\ chunks[k + 1].startOffset = chunks[k + 2].startOffset

\* C19: under late-chunking with 0 <= chunkOverlap < chunkSize every pass of
\* the scan loop runs at a position inside the document and strictly
\* increases the position: to max(currentPosition + chunkSize - chunkOverlap,
\* chunkEnd - chunkOverlap) when it pushes a chunk, to chunkEnd when it skips
\* one; the loop is left only at a position at or past the end of the
\* document.
C19_CursorAdvances ==
  [][(cpc = "late" /\ ValidOverlap) =>
       LET chunkEnd == findOptimalChunkEnd(content, position, config.chunkSize,
                                           findSemanticBoundaries(content))
       IN  IF cpc' = "late"
           THEN /\ position < Len(content)
                /\ position' > position
                /\ position' =
                     IF Len(chunks') > Len(chunks)
                     THEN Max(position + config.chunkSize - config.chunkOverlap,
                              chunkEnd - config.chunkOverlap)
                     ELSE chunkEnd
           ELSE position >= Len(content)]_vars

\* A scan that pushed a chunk, then skipped a candidate, and is still inside
\* the document.
C19_Witness ==
  /\ cpc = "late"
  /\ ValidOverlap
  /\ chunks # <<>>
  /\ position < Len(content)
  /\ position > Max(chunks[Len(chunks)].startOffset + config.chunkSize
                      - config.chunkOverlap,
                    chunks[Len(chunks)].endOffset - config.chunkOverlap)

\* C20: two calls of one service for the same document return the same
\* chunks, whatever was chunked before or between them.
C20_SameDocumentSameChunks ==
  \A i, j \in 1..Len(history) :
    history[i].document = history[j].document =>
      history[i].chunks = history[j].chunks

\* Three calls that returned: a document, another document, and the first
\* document again, each with chunks.
C20_Witness ==
  /\ Len(history) = 3
  /\ history[1].document = history[3].document
  /\ history[1].document # history[2].document
  /\ history[1].chunks # <<>>
  /\ history[2].chunks # <<>>
  /\ history[1].chunks # history[2].chunks

\* The set of the elements of a sequence.
Range(seq) == {seq[i] : i \in 1..Len(seq)}

\* The end of the candidate that a pass of the scan loop took: the end of the
\* chunk it pushed, or the position it moved to when it skipped.
TakenEnd ==
  IF Len(chunks') > Len(chunks) THEN chunks'[Len(chunks')].endOffset
  ELSE position'

\* The boundaries that may end a chunk that starts at start.
CandidatesFrom(start) ==
  {b \in Range(findSemanticBoundaries(content)) :
     /\ start < b
     /\ 5 * b <= 6 * (start + config.chunkSize * 4)
     /\ b <= Len(content)}

\* C21: the service with chunkSize 512 and the other defaults returns, for a
\* document of k sections of about 300 tokens, exactly k chunks; only the
\* first has no context before it and only the last has none after it.
C21_OneChunkPerSection ==
  \A i \in 1..Len(history) :
    (/\ config.strategy = "late-chunking"
     /\ config.chunkSize = 512
     /\ history[i].document \in SectionDocuments) =>
      LET result == history[i].chunks
          k == Cardinality(HeaderStarts(preprocessContent(history[i].document)))
      IN  /\ Len(result) = k
          /\ \A j \in 1..Len(result) :
                /\ result[j].context.before = <<>> <=> j = 1
                /\ result[j].context.after = <<>> <=> j = Len(result)

\* C24: a pass of the scan loop at position p ends its candidate at the
\* boundary b with p < b <= min(1.2 x target, length) that is closest to
\* target = p + 4 x chunkSize, the smaller of two at the same distance, and
\* at min(target, length) when there is no such boundary; the end is after p
\* and not after the end of the document.
C24_ChunkEndIsClosestBoundary ==
  [][(cpc = "late" /\ cpc' = "late") =>
       LET target     == position + config.chunkSize * 4
           candidates == CandidatesFrom(position)
       IN  /\ candidates # {} =>
                /\ TakenEnd \in candidates
                /\ \A b \in candidates :
                     \/ Abs(TakenEnd - target) < Abs(b - target)
                     \/ /\ Abs(TakenEnd - target) = Abs(b - target)
                        /\ TakenEnd <= b
           /\ candidates = {} =>
                TakenEnd = IF target < Len(content) THEN target
                           ELSE Len(content)
           /\ TakenEnd > position
           /\ TakenEnd <= Len(content)]_vars

\* A chunk that ends at the earlier of two boundaries at the same distance
\* from its target, and a scan that found no boundary and went on by the
\* target.
C24_Witness ==
  /\ cpc = "late"
  /\ chunks # <<>>
  /\ LET last   == chunks[Len(chunks)]
          target == last.startOffset + config.chunkSize * 4
      IN  \E b \in CandidatesFrom(last.startOffset) :
            /\ last.endOffset < b
            /\ target - last.endOffset = b - target

\* The chunks of the traditional strategy are the token windows of at least
\* minimum tokens, and its loop is over once the window start has reached
\* the end of the tokens.
TokenWindows(minimum) ==
  LET step == config.chunkSize - config.chunkOverlap
  IN  (config.strategy = "traditional" /\ step > 0) =>
        /\ cpc = "traditional" =>
              /\ position % step = 0
              /\ position < TokenLen(Encode(Text(content))) + step
        /\ \A i \in 1..Len(history) :
              LET T      == Encode(Text(preprocessContent(history[i].document)))
                  size   == config.chunkSize
                  end(k) == IF k * step + size < TokenLen(T)
                            THEN k * step + size ELSE TokenLen(T)
                  kept   == Ascending({k \in 0..TokenLen(T) :
                                         /\ k * step < TokenLen(T)
                                         /\ end(k) - k * step >= minimum})
                  result == history[i].chunks
              IN  /\ Len(result) = Len(kept)
                  /\ \A j \in 1..Len(result) :
                        /\ result[j].content =
                             Chars(Decode(TokenSlice(T, kept[j] * step,
                                                     kept[j] * step + size)))
                        /\ result[j].tokenCount = end(kept[j]) - kept[j] * step
                        /\ result[j].tokenCount <= size
                        /\ (/\ j > 1
                            /\ kept[j] = kept[j - 1] + 1
                            /\ result[j].tokenCount = size
                            /\ config.chunkOverlap >= 0) =>
                             TokenSlice(T, kept[j] * step,
                                        kept[j] * step + config.chunkOverlap)
                               = TokenSlice(T, kept[j - 1] * step + step,
                                            kept[j - 1] * step + size)

\* C25: with a step chunkSize - chunkOverlap > 0, the traditional strategy
\* returns exactly the token windows [k x step, min(k x step + chunkSize, |T|))
\* of at least minChunkSize tokens, in order; no chunk has more than
\* chunkSize tokens, two full windows in a row share chunkOverlap tokens, and
\* the loop is over once the window start has reached |T|.
C25_ChunksAreTokenWindows == TokenWindows(config.minChunkSize)

RECURSIVE LengthBefore(_, _)
LengthBefore(sections, m) ==
  IF m <= 1 THEN 0
  ELSE Len(sections[m - 1]) + LengthBefore(sections, m - 1)

\* What section m gives: nothing below minimum tokens, itself up to
\* maxChunkSize tokens, and its traditional chunks above; its offset is the
\* length of the sections before it.
SectionChunks(sections, m, minimum) ==
  LET section    == sections[m]
      tokenCount == CountTokens(section)
      offset     == LengthBefore(sections, m)
  IN  IF tokenCount < minimum THEN <<>>
      ELSE IF tokenCount <= config.maxChunkSize
      THEN <<[content |-> TrimChars(section), startOffset |-> offset,
              endOffset |-> offset + Len(section), tokenCount |-> tokenCount]>>
      ELSE LET sub == traditionalChunking(section, config)
           IN  [k \in 1..Len(sub) |->
                  [content     |-> sub[k].content,
                   startOffset |-> offset + sub[k].startOffset,
                   endOffset   |-> offset + sub[k].endOffset,
                   tokenCount  |-> sub[k].tokenCount]]

SemanticSections(minimum) ==
  (/\ config.strategy = "semantic"
   /\ config.minChunkSize <= config.chunkSize
   /\ config.chunkSize <= config.maxChunkSize) =>
    \A i \in 1..Len(history) :
      LET sections == SplitSections(<<preprocessContent(history[i].document)>>,
                                    config.semanticSeparators)
          result   == history[i].chunks
      IN  /\ \A j \in 1..Len(result) :
                result[j].tokenCount <= config.maxChunkSize
          /\ [j \in 1..Len(result) |->
                [content     |-> result[j].content,
                 startOffset |-> result[j].startOffset,
                 endOffset   |-> result[j].endOffset,
                 tokenCount  |-> result[j].tokenCount]]
               = Flatten([m \in 1..Len(sections) |->
                            SectionChunks(sections, m, minimum)])

\* C26: with minChunkSize <= chunkSize <= maxChunkSize, no chunk of the
\* semantic strategy has more than maxChunkSize tokens: a section of
\* minChunkSize to maxChunkSize tokens is one chunk, a larger one is replaced
\* by its traditional chunks, a smaller one is dropped, and each starts at
\* the summed length of the sections before it, dropped ones included.
C26_SectionsWithinMaximum == SemanticSections(config.minChunkSize)

\* C29: with chunkOverlap < chunkSize, the scan that follows a pushed chunk
\* starts at or before the end of that chunk, unless the chunk ends the
\* document, so that no character between two chunks is left out.
C29_NextScanInsideChunk ==
  [][(/\ cpc = "late"
      /\ config.chunkOverlap < config.chunkSize
      /\ Len(chunks') > Len(chunks)) =>
       \/ position' <= chunks'[Len(chunks')].endOffset
       \/ chunks'[Len(chunks')].endOffset = Len(content)]_vars

(***************************************************************************)
(* Properties of optimizeResults.  They are stated on the state a call     *)
(* leaves: the hit list, the options, the sorted groups and the results.   *)
(***************************************************************************)
Done == pc = "done"

\* tokenBudget x targetUtilization
BudgetLimit == RatMul(Int2Rat(options.tokenBudget), options.targetUtilization)

\* The untruncated result of the k-th ranked group.
Whole(k) == Materialize(sortedGroups[k], options).result

\* Tokens of the first k ranked groups, all taken whole.
RECURSIVE UsedWhole(_)
UsedWhole(k) == IF k = 0 THEN 0 ELSE Whole(k).tokenCount + UsedWhole(k - 1)

\* The k-th ranked group and all groups before it fit whole.
FitsWhole(k) == RatLeq(Int2Rat(UsedWhole(k)), BudgetLimit)

\* k is the first ranked group that does not fit whole.
FirstNonFitting(k) == ~FitsWhole(k) /\ (k = 1 \/ FitsWhole(k - 1))

\* Space left when the k-th ranked group is reached.
RemainingAt(k) == RatSub(BudgetLimit, Int2Rat(UsedWhole(k - 1)))

RECURSIVE ReturnedTokens(_)
ReturnedTokens(k) ==
  IF k = 0 THEN 0 ELSE optimizedResults[k].tokenCount + ReturnedTokens(k - 1)

EndsWithNotice(text) ==
  /\ Len(text) >= Len(TruncationNotice)
  /\ \A i \in 2..Len(TruncationNotice) :
       text[Len(text) - Len(TruncationNotice) + i] = TruncationNotice[i]
  /\ IsSpace(text[Len(text) - Len(TruncationNotice) + 1].w)

\* The k-th returned result is a truncated one.
TruncatedAt(k) ==
  /\ k \in 1..Len(optimizedResults)
  /\ FirstNonFitting(k)
  /\ EndsWithNotice(optimizedResults[k].content)

\* C1: after optimizeResults the sum of tokenCount over the returned results
\* is at most tokenBudget x targetUtilization + 20, whether every result was
\* appended whole or the last one was truncated.
C1_BudgetInvariant ==
  Done =>
    RatLeq(Int2Rat(ReturnedTokens(Len(optimizedResults))),
           RatAdd(BudgetLimit, Int2Rat(20)))

\* A call that returned a whole result followed by a truncated one.
C1_Witness ==
  /\ Done
  /\ Len(optimizedResults) >= 2
  /\ TruncatedAt(Len(optimizedResults))
  /\ optimizedResults[1] = Whole(1)

\* C2: the results are, in order and one per group, a prefix of the ranked
\* group list: every group before the first one that does not fit whole is
\* returned whole, that group is returned truncated or not at all, no group
\* after it is returned, and nothing else excludes a group.
C2_PrefixOfRankedGroups ==
  Done =>
    LET n == Len(optimizedResults)
        m == Len(sortedGroups)
    IN  /\ n <= m
        /\ \A i \in 1..n : optimizedResults[i].url = sortedGroups[i].url
        /\ \A k \in 1..m :
             /\ FitsWhole(k) => k <= n /\ optimizedResults[k] = Whole(k)
             /\ FirstNonFitting(k) =>
                  \/ n = k - 1
                  \/ n = k /\ TruncatedAt(k) /\ optimizedResults[k] # Whole(k)
             /\ ~FitsWhole(k) /\ ~FirstNonFitting(k) => k > n

\* A group is left out, and a group ranked after it would have fitted in the
\* space that remained.
C2_Witness ==
  /\ Done
  /\ \E k \in 1..Len(sortedGroups) :
       /\ FirstNonFitting(k)
       /\ Len(optimizedResults) = k - 1
       /\ \E j \in (k + 1)..Len(sortedGroups) :
            RatLeq(Int2Rat(UsedWhole(k - 1) + Whole(j).tokenCount), BudgetLimit)

\* C3: the first group that does not fit whole is appended truncated if and
\* only if the remaining space exceeds 500, and is otherwise left out with
\* packing stopped; with tokenBudget 1000, targetUtilization 0.9 and two
\* groups of 600 tokens each, exactly one document is returned.
C3_TruncatesOnlyAboveFloor ==
  Done =>
    /\ \A k \in 1..Len(sortedGroups) :
         FirstNonFitting(k) =>
           IF RatGt(RemainingAt(k), Int2Rat(500))
           THEN Len(optimizedResults) = k /\ TruncatedAt(k)
           ELSE Len(optimizedResults) = k - 1
    /\ ( /\ options.tokenBudget = 1000
         /\ options.targetUtilization = Rat(9, 10)
         /\ Len(sortedGroups) = 2
         /\ Whole(1).tokenCount = 600
         /\ Whole(2).tokenCount = 600 )
       => Len(optimizedResults) = 1 /\ stats.documentsReturned = 1

\* Two groups of 600 tokens against a budget of 1000 at 0.9.
C3_Witness ==
  /\ Done
  /\ options.tokenBudget = 1000
  /\ options.targetUtilization = Rat(9, 10)
  /\ Len(sortedGroups) = 2
  /\ Whole(1).tokenCount = 600
  /\ Whole(2).tokenCount = 600
  /\ stats.documentsReturned = 1

Count(seq, x) == Cardinality({i \in 1..Len(seq) : seq[i] = x})

RECURSIVE GroupedCount(_, _)
GroupedCount(k, x) ==
  IF k = 0 THEN 0
  ELSE Count(sortedGroups[k].chunks, x) + GroupedCount(k - 1, x)

RECURSIVE GroupedTotal(_)
GroupedTotal(k) ==
  IF k = 0 THEN 0 ELSE Len(sortedGroups[k].chunks) + GroupedTotal(k - 1)

\* C4: grouping partitions the hits by url: every hit is in exactly one
\* group, hits of one url are in one group, every url has exactly one group,
\* and the groups' hit counts add up to the number of hits.
C4_GroupingPartitionsHits ==
  Done =>
    LET m == Len(sortedGroups)
    IN  /\ \A i, j \in 1..m :
             sortedGroups[i].url = sortedGroups[j].url => i = j
        /\ \A i \in 1..m : \A c \in 1..Len(sortedGroups[i].chunks) :
             sortedGroups[i].chunks[c].url = sortedGroups[i].url
        /\ \A h \in 1..Len(hits) :
             /\ \E i \in 1..m : sortedGroups[i].url = hits[h].url
             /\ GroupedCount(m, hits[h]) = Count(hits, hits[h])
        /\ GroupedTotal(m) = Len(hits)

\* Hits of two urls that alternate in the list.
C4_Witness ==
  /\ Done
  /\ Len(hits) >= 3
  /\ hits[1].url = hits[3].url
  /\ hits[1].url # hits[2].url
  /\ Len(sortedGroups) = 2

\* Sum of the scores of a group's hits.
RECURSIVE ScoreTotal(_, _)
ScoreTotal(scored, k) ==
  IF k = 0 THEN Int2Rat(0) ELSE RatAdd(scored[k].score, ScoreTotal(scored, k - 1))

FirstSeen(url) ==
  CHOOSE i \in 1..Len(hits) :
    hits[i].url = url /\ \A j \in 1..(i - 1) : hits[j].url # url

\* C6: the results are in descending order of relevanceScore, and results of
\* equal relevanceScore are in the order in which their urls were first met
\* in the hit list.
C6_OrderedByRelevance ==
  Done =>
    \A i, j \in 1..Len(optimizedResults) :
      i < j =>
        /\ RatGeq(optimizedResults[i].relevanceScore,
                  optimizedResults[j].relevanceScore)
        /\ optimizedResults[i].relevanceScore = optimizedResults[j].relevanceScore
             => FirstSeen(optimizedResults[i].url) < FirstSeen(optimizedResults[j].url)

\* A result moved ahead of one met earlier, and two results that tie.
C6_Witness ==
  /\ Done
  /\ \E i, j \in 1..Len(optimizedResults) :
       /\ i < j
       /\ FirstSeen(optimizedResults[i].url) > FirstSeen(optimizedResults[j].url)
  /\ \E i, j \in 1..Len(optimizedResults) :
       /\ i < j
       /\ optimizedResults[i].relevanceScore = optimizedResults[j].relevanceScore

HitsOf(url) == {i \in 1..Len(hits) : hits[i].url = url}

RECURSIVE ScoreOf(_, _)
ScoreOf(url, k) ==
  IF k = 0 THEN Int2Rat(0)
  ELSE RatAdd(IF hits[k].url = url THEN hits[k].score ELSE Int2Rat(0),
              ScoreOf(url, k - 1))

MeanOf(url) ==
  RatDiv(ScoreOf(url, Len(hits)), Int2Rat(Cardinality(HitsOf(url))))

KindOf(url) ==
  LET chunkCount == Cardinality(HitsOf(url))
  IN  IF chunkCount >= options.fullDocumentThreshold
         /\ RatGt(MeanOf(url), Rat(3, 4))
      THEN "full_document"
      ELSE IF chunkCount >= 2
                \/ (chunkCount = 1 /\ RatGt(MeanOf(url), Rat(17, 20)))
           THEN "expanded_chunk"
           ELSE "chunk"

\* Five hits of X averaging 0.9, one hit of Y at 0.5, threshold 3.
ScenarioB ==
  /\ options.fullDocumentThreshold = 3
  /\ Len(hits) = 6
  /\ Cardinality(HitsOf("X")) = 5
  /\ MeanOf("X") = Rat(9, 10)
  /\ Cardinality(HitsOf("Y")) = 1
  /\ MeanOf("Y") = Rat(1, 2)

\* C7: the kind of each result is full_document when chunkCount >=
\* fullDocumentThreshold and avgScore > 0.75, else expanded_chunk when
\* chunkCount >= 2 or (chunkCount = 1 and avgScore > 0.85), else chunk; so
\* five hits averaging 0.9 give a full_document with the bonus, ranked
\* first, and a single hit at 0.5 of another document gives a chunk.
C7_StrategySelection ==
  Done =>
    /\ \A i \in 1..Len(optimizedResults) :
         optimizedResults[i].type = KindOf(optimizedResults[i].url)
    /\ ScenarioB =>
         /\ Len(optimizedResults) >= 1 =>
              /\ optimizedResults[1].url = "X"
              /\ optimizedResults[1].type = "full_document"
              /\ optimizedResults[1].relevanceScore = Rat(27, 4)
         /\ Len(optimizedResults) >= 2 =>
              /\ optimizedResults[2].url = "Y"
              /\ optimizedResults[2].type = "chunk"

C7_Witness ==
  /\ Done
  /\ ScenarioB
  /\ Len(optimizedResults) = 2
  /\ optimizedResults[1].type = "full_document"
  /\ optimizedResults[2].type = "chunk"

\* What a truncated result keeps besides its content and tokenCount.
SameButContent(r, w) ==
  /\ r.url = w.url
  /\ r.type = w.type
  /\ r.relevanceScore = w.relevanceScore
  /\ r.chunksFound = w.chunksFound

\* A truncated result is the first kept tokens of the whole content followed
\* by the notice, reports kept + 20 and fits the remaining space.
TruncatedKeeping(k, kept) ==
  LET r == optimizedResults[k]
      w == Whole(k)
  IN  /\ r.tokenCount = kept + 20
      /\ r.content =
           Concat(Decode(TakeTokens(Encode(w.content), kept)), TruncationNotice)
      /\ TokenLen(TakeTokens(Encode(w.content), kept)) = kept
      /\ RatLeq(Int2Rat(r.tokenCount), RemainingAt(k))
      /\ SameButContent(r, w)

\* C8 as stated: a truncated result keeps exactly the first
\* (maxTokens - usedTokens - 20) tokens followed by the notice, reports
\* kept + 20, which does not exceed the remaining space, and is otherwise
\* unchanged.
C8_KeepsExactRemainder ==
  Done =>
    \A k \in 1..Len(optimizedResults) :
      TruncatedAt(k) =>
        LET keep == RatSub(RemainingAt(k), Int2Rat(20))
        IN  keep.den = 1 /\ TruncatedKeeping(k, keep.num)

\* C8 amended: a truncated result keeps exactly the first
\* floor(maxTokens - usedTokens - 20) tokens followed by the notice, reports
\* kept + 20, which does not exceed the remaining space, and is otherwise
\* unchanged.
C8_KeepsFloorOfRemainder ==
  Done =>
    \A k \in 1..Len(optimizedResults) :
      TruncatedAt(k) =>
        TruncatedKeeping(k, RatTrunc(RatSub(RemainingAt(k), Int2Rat(20))))

\* A result truncated into a remaining space that is not a whole number.
C8_Witness ==
  /\ Done
  /\ \E k \in 1..Len(optimizedResults) :
       TruncatedAt(k) /\ RemainingAt(k).den # 1

\* C9 as stated: the tokenCount of every returned result is the tokenizer's
\* count of its final content.
C9_CountIsMeasured ==
  Done =>
    \A i \in 1..Len(optimizedResults) :
      optimizedResults[i].tokenCount = TokenCount(optimizedResults[i].content)

\* C9 amended: the tokenCount of every returned result that was not
\* truncated is the tokenizer's count of its final content.
C9_WholeCountIsMeasured ==
  Done =>
    \A i \in 1..Len(optimizedResults) :
      ~TruncatedAt(i) =>
        optimizedResults[i].tokenCount = TokenCount(optimizedResults[i].content)

\* A whole result of several hits whose count is not the sum of the hits'
\* token counts.
C9_Witness ==
  /\ Done
  /\ \E i \in 1..Len(optimizedResults) :
       /\ ~TruncatedAt(i)
       /\ Len(sortedGroups[i].chunks) >= 2
       /\ optimizedResults[i].tokenCount # sortedGroups[i].totalTokens

\* C10: on an empty hit list optimizeResults returns no results and stats of
\* zero: originalTokens, optimizedTokens, utilization and documentsReturned.
C10_EmptyHitsZeroStats ==
  Done /\ hits = <<>> =>
    /\ optimizedResults = <<>>
    /\ stats.originalTokens = 0
    /\ stats.optimizedTokens = 0
    /\ stats.utilization = Int2Rat(0)
    /\ stats.documentsReturned = 0

\* Token count of hit i as the statistics take it: the recorded
\* metadata.tokenCount, or a measurement of the content when none is recorded.
RecordedOrMeasured(i) ==
  IF hits[i].metadata.tokenCount > 0
  THEN hits[i].metadata.tokenCount
  ELSE TokenLen(Encode(hits[i].content))

HitSeqOf(url) == SelectSeq(hits, LAMBDA h : h.url = url)

\* The place of xs[i] when xs is put in ascending order of chunkIndex and
\* equal ones stay in the order of xs.
RankByIndex(xs, i) ==
  1 + Cardinality({j \in 1..Len(xs) :
                     \/ xs[j].metadata.chunkIndex < xs[i].metadata.chunkIndex
                     \/ /\ xs[j].metadata.chunkIndex = xs[i].metadata.chunkIndex
                        /\ j < i})

InIndexOrder(xs) ==
  [r \in 1..Len(xs) |-> xs[CHOOSE i \in 1..Len(xs) : RankByIndex(xs, i) = r]]

\* The place of xs[i] when xs is put in descending order of score and equal
\* ones stay in the order of xs.
RankByScore(xs, i) ==
  1 + Cardinality({j \in 1..Len(xs) :
                     \/ RatGt(xs[j].score, xs[i].score)
                     \/ xs[j].score = xs[i].score /\ j < i})

TopThree(xs) ==
  [r \in 1..(IF Len(xs) < 3 THEN Len(xs) ELSE 3) |->
     xs[CHOOSE i \in 1..Len(xs) : RankByScore(xs, i) = r]]

\* The trimmed contents of xs with the separator line between them.
RECURSIVE Joined(_)
Joined(xs) ==
  IF xs = <<>> THEN <<>>
  ELSE IF Len(xs) = 1 THEN Trim(xs[1].content)
  ELSE Concat(Trim(xs[1].content), Concat(ChunkSeparator, Joined(Tail(xs))))

\* The content of hit h between its contexts, where it has them.
Spliced(h) ==
  Concat(IF h.metadata.contextBefore # <<>>
         THEN Concat(h.metadata.contextBefore, ContextSeparator) ELSE <<>>,
         Concat(h.content,
                IF h.metadata.contextAfter # <<>>
                THEN Concat(ContextSeparator, h.metadata.contextAfter)
                ELSE <<>>))

====
